---- MODULE Spec2Model ----
(***************************************************************************)
(* Timeline / keyframe animation engine of the minimal video editor.       *)
(*                                                                         *)
(* Eight specifications share this module:                                 *)
(*   Spec         the playback clock of App: preview ticks (animate),      *)
(*                play/pause, seek, duration edits and the export capture  *)
(*                loop (handleExport / recordLoop / mediaRecorder.onstop). *)
(*   FairSpec     the clock operations of Spec, started after a duration   *)
(*                edit, with the export's callbacks delivered (weak        *)
(*                fairness): the liveness of the export.                   *)
(*   SpecResolve  the keyframe resolver getInterpolatedProps applied to    *)
(*                elements and query times drawn from bounded sets; its    *)
(*                property values and times are exact rationals.           *)
(*   SpecPreset   the same resolver applied to elements that carry an      *)
(*                animation preset, with the clip moved on the timeline.   *)
(*   SpecRecord   recording keyframes (addKeyframe) on the selected        *)
(*                element after seeks and toolbar edits; its playhead      *)
(*                positions are exact rationals.                           *)
(*   SpecCanvas   what EditorCanvas draws of projects of up to MaxLayers   *)
(*                clips as the playhead is moved around the clip ends.     *)
(*   SpecTimeline moving and resizing a clip on the timeline (mouse down,  *)
(*                moves, up) and editing the project duration.             *)
(*   SpecKeyframe addKeyframe called with the ids of two elements and of   *)
(*                no element, on lists of recorded keyframes.              *)
(*                                                                         *)
(* Clock times are IEEE-754 doubles.  Every clock value of the model is a  *)
(* multiple of 2^-57 s (the unit in the last place of 1/FPS = 1/30), so a  *)
(* time is held as a natural number of such units, written in three limbs  *)
(* <<hi, mid, lo>> of 21 bits each, and additions round to 53 significant  *)
(* bits, ties to even, as the hardware does.                               *)
(***************************************************************************)
EXTENDS Integers, Sequences, FiniteSets, TLC

(***************************************************************************)
(* Bounds of the model.                                                    *)
(***************************************************************************)
\* largest project duration (seconds) typed into the duration input
MaxDuration == 2
\* number of elements the toolbar adds in the clock specification
MaxElements == 1
\* ids uuidv4 hands out in the recording specification (element and keyframes)
MaxIds == 4
\* the playhead positions of the recording specification: 0..MaxSeek, in 1/64 s
MaxSeek == 4
\* number of elements on the canvas in the canvas specification
MaxLayers == 2
\* clips are dragged and resized up to this end time, in seconds
MaxClipEnd == 8
\* longest keyframe list handed to the resolver
MaxKeyframes == 2
\* latest keyframe time (seconds) handed to the resolver
MaxTime == 2

(***************************************************************************)
(* Program constants.                                                      *)
(***************************************************************************)
FPS == 30
InitialDuration == 10
MinDuration == 1

(***************************************************************************)
(* Double-precision values in units of 2^-57 s.                            *)
(***************************************************************************)
RECURSIVE Pow2(_)
Pow2(n) == IF n = 0 THEN 1 ELSE 2 * Pow2(n - 1)

LimbBits == 21
Limb == Pow2(LimbBits)
UnitExp == 57
MantissaBits == 53

DZero == <<0, 0, 0>>

\* carry-normalise three limbs (the high limb keeps any excess)
DNorm(h, m, l) ==
    LET m1 == m + (l \div Limb)
    IN  << h + (m1 \div Limb), m1 % Limb, l % Limb >>

\* n whole seconds (n * 2^57 units)
DOfSeconds(n) == << n * Pow2(UnitExp - 2 * LimbBits), 0, 0 >>

\* k / 2^j seconds, for j <= 15
DOfDyadic(k, j) == << k * Pow2(UnitExp - 2 * LimbBits - j), 0, 0 >>

RECURSIVE BitLen(_)
BitLen(x) == IF x = 0 THEN 0 ELSE 1 + BitLen(x \div 2)

DBitLen(v) ==
    IF v[1] > 0 THEN 2 * LimbBits + BitLen(v[1])
    ELSE IF v[2] > 0 THEN LimbBits + BitLen(v[2])
    ELSE BitLen(v[3])

\* round an exact sum to 53 significant bits, ties to even
DRound(v) ==
    LET len == DBitLen(v)
        r == len - MantissaBits
    IN  IF r <= 0 THEN v
        ELSE LET unit == Pow2(r)
                 q == v[3] % unit
                 half == unit \div 2
                 odd == ((v[3] \div unit) % 2) = 1
                 up == (q > half) \/ (q = half /\ odd)
             IN  IF up THEN DNorm(v[1], v[2], v[3] - q + unit)
                 ELSE << v[1], v[2], v[3] - q >>

\* a + b as the floating-point unit computes it
DAdd(a, b) == DRound(DNorm(a[1] + b[1], a[2] + b[2], a[3] + b[3]))

DLess(a, b) ==
    \/ a[1] < b[1]
    \/ a[1] = b[1] /\ a[2] < b[2]
    \/ a[1] = b[1] /\ a[2] = b[2] /\ a[3] < b[3]

DGreater(a, b) == DLess(b, a)
DGeq(a, b) == ~DLess(a, b)

\* floor(v / n) of a limb value by a small natural number, with remainder
DDivSmall(v, n) ==
    LET q1 == v[1] \div n
        r1 == v[1] % n
        c2 == r1 * Limb + v[2]
        q2 == c2 \div n
        r2 == c2 % n
        c3 == r2 * Limb + v[3]
    IN  [quot |-> << q1, q2, c3 \div n >>, rem |-> c3 % n]

\* 1 / FPS: the quotient 2^57 / FPS rounded to nearest (53 bits for FPS = 30)
DRecip(n) ==
    LET d == DDivSmall(DOfSeconds(1), n)
    IN  IF 2 * d.rem > n \/ (2 * d.rem = n /\ d.quot[3] % 2 = 1)
        THEN DNorm(d.quot[1], d.quot[2], d.quot[3] + 1)
        ELSE d.quot


(***************************************************************************)
(* Property values: numbers are exact rationals n/d in lowest terms with   *)
(* d > 0, strings are categorical, and Undefined is the value JavaScript   *)
(* gives for a key an object does not have.                                *)
(***************************************************************************)
RECURSIVE Gcd(_, _)
Gcd(a, b) == IF b = 0 THEN a ELSE Gcd(b, a % b)

Abs(a) == IF a < 0 THEN -a ELSE a

Rat(n, d) ==
    LET sgn == IF d < 0 THEN -1 ELSE 1
        g == Gcd(Abs(n), Abs(d))
    IN  [n |-> (sgn * n) \div g, d |-> (sgn * d) \div g]

RInt(n) == [n |-> n, d |-> 1]
\* sums go over the least common denominator, which keeps the products small
Lcm(a, b) == IF a = 0 \/ b = 0 THEN 0 ELSE (a \div Gcd(a, b)) * b
RAdd(a, b) ==
    LET l == Lcm(a.d, b.d)
    IN  IF l = 0 THEN [n |-> 0, d |-> 0]
        ELSE Rat(a.n * (l \div a.d) + b.n * (l \div b.d), l)
RSub(a, b) == RAdd(a, [n |-> 0 - b.n, d |-> b.d])
RMul(a, b) == Rat(a.n * b.n, a.d * b.d)
RDiv(a, b) == Rat(a.n * b.d, a.d * b.n)
RLess(a, b) == a.n * b.d < b.n * a.d
RLeq(a, b) == a.n * b.d <= b.n * a.d
RMin(a, b) == IF RLeq(a, b) THEN a ELSE b
RAbs(a) == [n |-> Abs(a.n), d |-> a.d]
RMax(a, b) == IF RLeq(a, b) THEN b ELSE a

Num(r) == [tag |-> "number", num |-> r, str |-> ""]
NumI(n) == Num(RInt(n))
Str(s) == [tag |-> "string", num |-> RInt(0), str |-> s]
Undefined == [tag |-> "undefined", num |-> RInt(0), str |-> ""]

\* typeof v === 'number'
IsNumber(v) == v.tag = "number"

\* obj[k] of a JavaScript object held as a function on its own keys
Get(obj, k) == IF k \in DOMAIN obj THEN obj[k] ELSE Undefined

\* { ...a, ...b }
Spread(a, b) ==
    [k \in (DOMAIN a) \cup (DOMAIN b) |-> IF k \in DOMAIN b THEN b[k] ELSE a[k]]

(***************************************************************************)
(* Data model.                                                             *)
(***************************************************************************)
CANVAS_WIDTH == 1080
CANVAS_HEIGHT == 1920

ElementType == {"text", "image", "rect", "circle"}

\* the fields ElementProps declares without '?'
RequiredProps ==
    {"x", "y", "width", "height", "rotation", "scaleX", "scaleY", "opacity", "zIndex"}

ELEMENT_PROPS_WHITELIST ==
    RequiredProps \cup {"fill", "stroke", "strokeWidth", "text", "fontSize",
                        "fontFamily", "fontStyle", "align", "src"}

Null == "null"

\* selectedId === null (element ids are 1, 2, ...)
NoId == 0


(***************************************************************************)
(* Keyframe resolver (utils/animationUtils).                               *)
(***************************************************************************)
\* the result of arithmetic on something that is not a number
NaN == Num([n |-> 0, d |-> 0])

IsFinite(v) == IsNumber(v) /\ v.num.d # 0

\* start + (end - start) * Math.min(1, Math.max(0, t)) on rationals
lerpRat(start, end, t) ==
    RAdd(start, RMul(RSub(end, start), RMin(RInt(1), RMax(RInt(0), t))))

\* lerp on property values: anything that is not a finite number gives NaN
lerp(start, end, t) ==
    IF IsFinite(start) /\ IsFinite(end)
    THEN Num(lerpRat(start.num, end.num, t))
    ELSE NaN

\* variant: k is inserted in front of the keyframes of the same time
RECURSIVE InsertByTimeTiesFirst(_, _)
InsertByTimeTiesFirst(sorted, k) ==
    IF sorted = << >> THEN << k >>
    ELSE IF RLeq(k.time, Head(sorted).time) THEN << k >> \o sorted
    ELSE << Head(sorted) >> \o InsertByTimeTiesFirst(Tail(sorted), k)

\* insert k behind every keyframe whose time is not greater (stable)
RECURSIVE InsertByTime(_, _)
InsertByTime(sorted, k) ==
    IF sorted = << >> THEN << k >>
    ELSE IF RLess(k.time, Head(sorted).time) THEN << k >> \o sorted
    ELSE << Head(sorted) >> \o InsertByTime(Tail(sorted), k)

\* [...keyframes].sort((a, b) => a.time - b.time)
RECURSIVE SortByTime(_)
SortByTime(kfs) ==
    IF kfs = << >> THEN << >>
    ELSE InsertByTime(SortByTime(SubSeq(kfs, 1, Len(kfs) - 1)), kfs[Len(kfs)])

\* variant: the keyframes are taken in insertion order, unsorted
sortedKeyframesUnsorted(element) == element.keyframes

sortedKeyframes(element) == SortByTime(element.keyframes)

\* positions in the sorted list of the keyframes around currentTime; 0 = none

\* variant: the previous keyframe must lie strictly before currentTime
prevIndexStrict(sorted, currentTime) ==
    LET idx == {i \in 1..Len(sorted) : RLess(sorted[i].time, currentTime)}
    IN  IF idx = {} THEN 0 ELSE CHOOSE i \in idx : \A j \in idx : j <= i

prevIndex(sorted, currentTime) ==
    LET idx == {i \in 1..Len(sorted) : RLeq(sorted[i].time, currentTime)}
    IN  IF idx = {} THEN 0 ELSE CHOOSE i \in idx : \A j \in idx : j <= i

nextIndex(sorted, currentTime) ==
    LET idx == {i \in 1..Len(sorted) : RLess(currentTime, sorted[i].time)}
    IN  IF idx = {} THEN 0 ELSE CHOOSE i \in idx : \A j \in idx : i <= j

\* the value the forEach body stores for key k
interpolatedValue(prevKeyframe, nextKeyframe, progress, k) ==
    LET startVal == Get(prevKeyframe.props, k)
        endVal == Get(nextKeyframe.props, k)
    IN  IF IsNumber(startVal) /\ IsNumber(endVal)
        THEN lerp(startVal, endVal, progress)
        ELSE startVal

\* variant: the working copy starts empty instead of from element.props
applyKeyframesNoBase(element, currentTime) ==
    LET props == << >>
        sorted == sortedKeyframes(element)
        p == prevIndex(sorted, currentTime)
        n == nextIndex(sorted, currentTime)
    IN  IF p # 0 /\ n # 0
        THEN LET prevKeyframe == sorted[p]
                 nextKeyframe == sorted[n]
                 timeDiff == RSub(nextKeyframe.time, prevKeyframe.time)
                 progress == RDiv(RSub(currentTime, prevKeyframe.time), timeDiff)
             IN  [k \in DOMAIN nextKeyframe.props |->
                     interpolatedValue(prevKeyframe, nextKeyframe, progress, k)]
        ELSE IF p # 0 THEN Spread(props, sorted[p].props)
        ELSE IF n # 0 THEN Spread(props, sorted[n].props)
        ELSE props

\* step 1 of getInterpolatedProps: keyframes applied to a copy of the props
applyKeyframes(element, currentTime) ==
    LET props == element.props
        sorted == sortedKeyframes(element)
        p == prevIndex(sorted, currentTime)
        n == nextIndex(sorted, currentTime)
    IN  IF p # 0 /\ n # 0
        THEN LET prevKeyframe == sorted[p]
                 nextKeyframe == sorted[n]
                 timeDiff == RSub(nextKeyframe.time, prevKeyframe.time)
                 progress == RDiv(RSub(currentTime, prevKeyframe.time), timeDiff)
             IN  [k \in (DOMAIN props) \cup (DOMAIN nextKeyframe.props) |->
                     IF k \in DOMAIN nextKeyframe.props
                     THEN interpolatedValue(prevKeyframe, nextKeyframe, progress, k)
                     ELSE props[k]]
        ELSE IF p # 0 THEN Spread(props, sorted[p].props)
        ELSE IF n # 0 THEN Spread(props, sorted[n].props)
        ELSE props

NoPreset == "undefined"
ANIMATION_PRESETS ==
    {"none", "fadeIn", "fadeOut", "slideInLeft", "slideInRight", "pop", "pulse"}

\* element.animationPreset && element.animationPreset !== 'none'
hasPreset(element) ==
    element.animationPreset # NoPreset /\ element.animationPreset # "none"

\* variant: the animation duration is used as given, without the default
presetDurationAsGiven(element) ==
    LET d == element.animationDuration
    IN  IF IsFinite(d) THEN d.num ELSE RInt(1)

\* element.animationDuration || 1.0
presetDuration(element) ==
    LET d == element.animationDuration
    IN  IF IsFinite(d) /\ d.num.n # 0 THEN d.num ELSE RInt(1)

\* 1 - Math.pow(1 - t, 3)
easeOutCubic(t) ==
    LET u == RSub(RInt(1), t)
    IN  RSub(RInt(1), RMul(u, RMul(u, u)))

\* -v of a property value
negPlus(v, c) ==
    IF IsFinite(v) THEN Num(RSub(RInt(0 - c), v.num)) ELSE NaN

\* props.k = v
Assign(props, k, v) == Spread(props, [key \in {k} |-> v])

\* c1 of the BackOut easing, 1.70158
c1 == Rat(170158, 100000)
c3 == RAdd(c1, RInt(1))

\* 1 + c3 * Math.pow(t - 1, 3) + c1 * Math.pow(t - 1, 2)
easeBackOut(t) ==
    LET u == RSub(t, RInt(1))
    IN  RAdd(RAdd(RInt(1), RMul(c3, RMul(u, RMul(u, u)))), RMul(c1, RMul(u, u)))

\* the amplitude of pulse, 0.05
scaleAmp == Rat(1, 20)

\* Math.sin(q * Math.PI) at the quarter periods, where the sine is rational;
\* the specifications query the pulse at no other phase
sinPi(q) ==
    IF q.d = 1 THEN RInt(0)
    ELSE IF q.d = 2 /\ q.n % 4 = 1 THEN RInt(1)
    ELSE IF q.d = 2 /\ q.n % 4 = 3 THEN RInt(0 - 1)
    ELSE [n |-> 0, d |-> 0]

\* v += r on a property value
plus(v, r) == IF IsFinite(v) /\ r.d # 0 THEN Num(RAdd(v.num, r)) ELSE NaN

\* variant: fadeOut also acts at the very end of the clip (endDiff = 0)
applyPresetFadeOutAtEnd(element, props, currentTime) ==
    LET relativeTime == RSub(currentTime, element.startTime)
        duration == presetDuration(element)
        preset == element.animationPreset
        endDiff == RSub(RAdd(element.startTime, element.duration), currentTime)
        u == RDiv(relativeTime, duration)
    IN  IF preset = "fadeIn" /\ RLess(relativeTime, duration)
        THEN Assign(props, "opacity", lerp(NumI(0), Get(props, "opacity"), u))
        ELSE IF preset = "fadeOut" /\ RLess(endDiff, duration) /\ RLeq(RInt(0), endDiff)
        THEN Assign(props, "opacity",
                    lerp(NumI(0), Get(props, "opacity"), RDiv(endDiff, duration)))
        ELSE IF preset = "slideInLeft" /\ RLess(relativeTime, duration)
        THEN Assign(props, "x",
                    lerp(negPlus(Get(props, "width"), 100), Get(props, "x"),
                         easeOutCubic(u)))
        ELSE IF preset = "slideInRight" /\ RLess(relativeTime, duration)
        THEN Assign(props, "x",
                    lerp(NumI(CANVAS_WIDTH + 100), Get(props, "x"), easeOutCubic(u)))
        ELSE IF preset = "pop" /\ RLess(relativeTime, RMul(duration, Rat(1, 2)))
        THEN LET easeBack ==
                     Num(RMin(RInt(1),
                              easeBackOut(RDiv(relativeTime, RMul(duration, Rat(1, 2))))))
             IN  Assign(Assign(props, "scaleX",
                               lerp(NumI(0), Get(props, "scaleX"), easeBack.num)),
                        "scaleY", lerp(NumI(0), Get(props, "scaleY"), easeBack.num))
        ELSE IF preset = "pulse"
        THEN LET pulseSpeed == RDiv(RInt(2), duration)
                 sineWave == RMul(sinPi(RMul(relativeTime, pulseSpeed)), scaleAmp)
             IN  Assign(Assign(props, "scaleX", plus(Get(props, "scaleX"), sineWave)),
                        "scaleY", plus(Get(props, "scaleY"), sineWave))
        ELSE props

\* step 2 of getInterpolatedProps: the procedural overlay of the presets
applyPreset(element, props, currentTime) ==
    LET relativeTime == RSub(currentTime, element.startTime)
        duration == presetDuration(element)
        preset == element.animationPreset
        endDiff == RSub(RAdd(element.startTime, element.duration), currentTime)
        u == RDiv(relativeTime, duration)
    IN  IF preset = "fadeIn" /\ RLess(relativeTime, duration)
        THEN Assign(props, "opacity", lerp(NumI(0), Get(props, "opacity"), u))
        ELSE IF preset = "fadeOut" /\ RLess(endDiff, duration) /\ RLess(RInt(0), endDiff)
        THEN Assign(props, "opacity",
                    lerp(NumI(0), Get(props, "opacity"), RDiv(endDiff, duration)))
        ELSE IF preset = "slideInLeft" /\ RLess(relativeTime, duration)
        THEN Assign(props, "x",
                    lerp(negPlus(Get(props, "width"), 100), Get(props, "x"),
                         easeOutCubic(u)))
        ELSE IF preset = "slideInRight" /\ RLess(relativeTime, duration)
        THEN Assign(props, "x",
                    lerp(NumI(CANVAS_WIDTH + 100), Get(props, "x"), easeOutCubic(u)))
        ELSE IF preset = "pop" /\ RLess(relativeTime, RMul(duration, Rat(1, 2)))
        THEN LET easeBack ==
                     Num(RMin(RInt(1),
                              easeBackOut(RDiv(relativeTime, RMul(duration, Rat(1, 2))))))
             IN  Assign(Assign(props, "scaleX",
                               lerp(NumI(0), Get(props, "scaleX"), easeBack.num)),
                        "scaleY", lerp(NumI(0), Get(props, "scaleY"), easeBack.num))
        ELSE IF preset = "pulse"
        THEN LET pulseSpeed == RDiv(RInt(2), duration)
                 sineWave == RMul(sinPi(RMul(relativeTime, pulseSpeed)), scaleAmp)
             IN  Assign(Assign(props, "scaleX", plus(Get(props, "scaleX"), sineWave)),
                        "scaleY", plus(Get(props, "scaleY"), sineWave))
        ELSE props

\* variant: a preset name without a case hides the element
getInterpolatedPropsUnknownHides(element, currentTime) ==
    LET props == applyKeyframes(element, currentTime)
    IN  IF ~hasPreset(element) THEN props
        ELSE IF element.animationPreset \in ANIMATION_PRESETS
        THEN applyPreset(element, props, currentTime)
        ELSE Assign(props, "opacity", NumI(0))

\* variant: the presets are laid over the base props, not over the
\* keyframe-resolved ones
getInterpolatedPropsPresetOnBase(element, currentTime) ==
    LET props == applyKeyframes(element, currentTime)
    IN  IF hasPreset(element) THEN applyPreset(element, element.props, currentTime)
        ELSE props

getInterpolatedProps(element, currentTime) ==
    LET props == applyKeyframes(element, currentTime)
    IN  IF hasPreset(element) THEN applyPreset(element, props, currentTime)
        ELSE props


(***************************************************************************)
(* State.                                                                  *)
(***************************************************************************)
VARIABLES
    project,         \* ProjectState: elements, duration (s), backgroundColor
    currentTime,     \* double, units of 2^-57 s
    isPlaying,
    selectedId,      \* an element id or NoId
    isExporting,
    stageRef,        \* Null until the canvas stage is mounted
    nextId,          \* the ids uuidv4 has handed out so far, plus one
    exportPc,        \* where the running handleExport is: idle, wait, loop, stopping
    t,               \* recordLoop's next step time (double)
    exportDuration,  \* project.duration as the running handleExport closed over it
    steps,           \* history: setCurrentTime calls of the current record loop
    atRequest,       \* history, during the 100 ms wait: the state handleExport
                     \* was called in and the state it left
    wrapped,         \* history: a preview tick has reached the duration and no
                     \* user action has followed it
    exported,        \* history: an export has completed and no user action
                     \* has followed it
    pendingFrames,   \* animation-frame callbacks requested and neither run
                     \* nor cancelled (their number)
    animationFrameRef, \* whether the handle it holds names a pending callback
    drag,            \* the timeline gesture whose window listeners are attached
    element,         \* SpecResolve: the element handed to the resolver
    queryTime,       \* SpecResolve: the time handed to the resolver
    resolved,        \* SpecResolve: the property set it returned
    resolvePc        \* SpecResolve: input, done

vars == << project, currentTime, isPlaying, selectedId, isExporting, stageRef,
           nextId, exportPc, t, exportDuration, steps, atRequest, wrapped,
           exported, pendingFrames, animationFrameRef, drag,
           element, queryTime, resolved, resolvePc >>

clockVars == << project, currentTime, isPlaying, selectedId, isExporting,
                stageRef, nextId, exportPc, t, exportDuration, steps,
                atRequest, wrapped, exported, pendingFrames,
                animationFrameRef, drag >>

resolveVars == << element, queryTime, resolved, resolvePc >>

exportVars == << exportPc, t, exportDuration, steps, atRequest >>

\* what a handler can observe of the App state
Observable ==
    [isExporting |-> isExporting, isPlaying |-> isPlaying,
     selectedId |-> selectedId, currentTime |-> currentTime,
     project |-> project]

selectedElement ==
    {e \in {project.elements[i] : i \in 1..Len(project.elements)} : e.id = selectedId}

\* the full-screen "Rendering Video..." overlay takes every pointer event
overlayShown == isExporting

(***************************************************************************)
(* The animation-frame subscription of App.  Handles are compared only     *)
(* with the handle in animationFrameRef, so the state keeps the number of  *)
(* pending callbacks and whether the ref's handle names one of them.       *)
(***************************************************************************)
\* requestAnimationFrame(animate): one more pending callback
requestAnimationFrame(frames) == frames + 1

\* if (animationFrameRef.current) cancelAnimationFrame(animationFrameRef.current):
\* cancelling a handle that has run or was cancelled does nothing
cancelAnimationFrame(frames, ref) ==
    IF ref = "pending" THEN frames - 1 ELSE frames

\* variant: the effect has no cleanup, it only requests a frame
previewEffectNoCleanup(frames, ref) ==
    IF isPlaying' # isPlaying \/ project'.duration # project.duration
    THEN /\ pendingFrames' = requestAnimationFrame(frames)
         /\ animationFrameRef' = "pending"
    ELSE /\ pendingFrames' = frames
         /\ animationFrameRef' = ref

\* the effect of [isPlaying, project.duration], run by the render that follows
\* a handler which left frames pending and ref in the ref: when a dependency
\* has changed, the cleanup cancels the ref's handle and the effect requests
\* a frame and stores its handle
previewEffect(frames, ref) ==
    IF isPlaying' # isPlaying \/ project'.duration # project.duration
    THEN /\ pendingFrames' = requestAnimationFrame(cancelAnimationFrame(frames, ref))
         /\ animationFrameRef' = "pending"
    ELSE /\ pendingFrames' = frames
         /\ animationFrameRef' = ref

\* no timeline gesture is in progress
NoDrag == [kind |-> "none"]

(***************************************************************************)
(* Edit operations of App.                                                 *)
(***************************************************************************)
\* the element addElement(type) builds for a project of n elements
elementOf(type, id, n) ==
    LET common ==
            [k \in RequiredProps \cup {"fill"} |->
                CASE k = "x" -> NumI(CANVAS_WIDTH \div 2)
                  [] k = "y" -> NumI(CANVAS_HEIGHT \div 2)
                  [] k = "width" -> NumI(200)
                  [] k = "height" -> NumI(200)
                  [] k = "rotation" -> NumI(0)
                  [] k = "scaleX" -> NumI(1)
                  [] k = "scaleY" -> NumI(1)
                  [] k = "opacity" -> NumI(1)
                  [] k = "zIndex" -> NumI(n)
                  [] OTHER -> Str("#A7F3D0")]
        textProps ==
            [k \in {"text", "fontSize", "fontFamily", "fontStyle", "align",
                    "fill", "width", "height", "x", "y"} |->
                CASE k = "text" -> Str("Add a heading")
                  [] k = "fontSize" -> NumI(60)
                  [] k = "fontFamily" -> Str("Inter")
                  [] k = "fontStyle" -> Str("normal")
                  [] k = "align" -> Str("left")
                  [] k = "fill" -> Str("#1a1a1a")
                  [] k = "width" -> NumI(400)
                  [] k = "height" -> NumI(72)
                  [] k = "x" -> NumI(CANVAS_WIDTH \div 2 - 200)
                  [] OTHER -> NumI(CANVAS_HEIGHT \div 2 - 30)]
        boxProps ==
            [k \in {"x", "y"} |->
                IF k = "x" THEN NumI(CANVAS_WIDTH \div 2 - 100)
                ELSE NumI(CANVAS_HEIGHT \div 2 - 100)]
        extraProps ==
            IF type = "image" THEN [k \in {"src"} |-> Str("image.png")]
            ELSE << >>
        base == Spread(common, extraProps)
        props ==
            IF type = "text" THEN Spread(base, textProps)
            ELSE IF type \in {"rect", "image"} THEN Spread(base, boxProps)
            ELSE base
    IN  [id |-> id, type |-> type, name |-> << type, n + 1 >>,
         startTime |-> RInt(0), duration |-> RInt(5),
         animationPreset |-> NoPreset, animationDuration |-> NumI(1),
         keyframes |-> << >>, props |-> props]

\* the element addElement(type) builds from the current project
newElement(type, id) == elementOf(type, id, Len(project.elements))

addElement(type) ==
    /\ nextId <= MaxElements
    /\ project' = [project EXCEPT !.elements = Append(@, newElement(type, nextId))]
    /\ selectedId' = nextId
    /\ nextId' = nextId + 1
    /\ UNCHANGED << currentTime, isPlaying, isExporting, stageRef >>
    /\ UNCHANGED exportVars
    /\ wrapped' = FALSE
    /\ exported' = FALSE
    /\ previewEffect(pendingFrames, animationFrameRef)
    /\ UNCHANGED drag
    /\ UNCHANGED resolveVars

\* onSelect of the canvas and of the timeline: pointer events only
onSelect(id) ==
    /\ ~overlayShown
    /\ id = NoId \/ \E i \in 1..Len(project.elements) : project.elements[i].id = id
    /\ selectedId' = id
    /\ UNCHANGED << project, currentTime, isPlaying, isExporting, stageRef, nextId >>
    /\ UNCHANGED exportVars
    /\ wrapped' = FALSE
    /\ exported' = FALSE
    /\ previewEffect(pendingFrames, animationFrameRef)
    /\ UNCHANGED drag
    /\ UNCHANGED resolveVars

\* the duration input, shown while no element is selected
onUpdateDuration(value) ==
    /\ selectedElement = {}
    /\ project' = [project EXCEPT
                      !.duration = IF value > MinDuration THEN value ELSE MinDuration]
    /\ UNCHANGED << currentTime, isPlaying, selectedId, isExporting, stageRef,
                    nextId >>
    /\ UNCHANGED exportVars
    /\ wrapped' = FALSE
    /\ exported' = FALSE
    /\ previewEffect(pendingFrames, animationFrameRef)
    /\ UNCHANGED drag
    /\ UNCHANGED resolveVars

\* the elements updateElement(id, update) stores: a props update is merged
\* into el.props, any other update into the element itself
updatedElements(id, update) ==
    [i \in DOMAIN project.elements |->
        LET el == project.elements[i]
            isPropUpdate ==
                \E k \in DOMAIN update : k \in ELEMENT_PROPS_WHITELIST
        IN  IF el.id # id THEN el
            ELSE IF isPropUpdate
            THEN [el EXCEPT !.props = Spread(el.props, update)]
            ELSE Spread(el, update)]

\* updateElement(id, update) as the toolbar calls it, for the selected element
updateElement(id, update) ==
    /\ selectedElement # {}
    /\ project' = [project EXCEPT !.elements = updatedElements(id, update)]
    /\ UNCHANGED << currentTime, isPlaying, selectedId, isExporting, stageRef,
                    nextId >>
    /\ UNCHANGED exportVars
    /\ wrapped' = FALSE
    /\ exported' = FALSE
    /\ previewEffect(pendingFrames, animationFrameRef)
    /\ UNCHANGED drag
    /\ UNCHANGED resolveVars

\* the tolerance window of addKeyframe, 0.05 s
KeyframeTolerance == Rat(1, 20)

\* the keyframe addKeyframe builds for el
newKeyframe(el, propKey, id) ==
    LET currentVal == Get(getInterpolatedProps(el, currentTime), propKey)
    IN  [id |-> id, time |-> currentTime, props |-> [k \in {propKey} |-> currentVal]]

\* variant: the window is 0.01 s wide
outsideWindowNarrow(k, propKey) ==
    \/ RLess(Rat(1, 100), RAbs(RSub(k.time, currentTime)))
    \/ propKey \notin DOMAIN k.props

\* Math.abs(k.time - currentTime) > 0.05 || !k.props.hasOwnProperty(propKey)
outsideWindow(k, propKey) ==
    \/ RLess(KeyframeTolerance, RAbs(RSub(k.time, currentTime)))
    \/ propKey \notin DOMAIN k.props

\* variant: every keyframe inside the window is dropped, whatever it defines
filteredKeyframesAnyProperty(el, propKey) ==
    SelectSeq(el.keyframes,
              LAMBDA k : RLess(KeyframeTolerance, RAbs(RSub(k.time, currentTime))))

filteredKeyframes(el, propKey) ==
    SelectSeq(el.keyframes, LAMBDA k : outsideWindow(k, propKey))

\* variant: nothing is filtered out before the new keyframe is appended
addKeyframeNoFilter(id, propKey) ==
    /\ selectedElement # {}
    /\ nextId <= MaxIds
    /\ project' = [project EXCEPT !.elements =
           [i \in DOMAIN @ |->
               LET el == @[i]
               IN  IF el.id # id THEN el
                   ELSE [el EXCEPT !.keyframes =
                            Append(el.keyframes, newKeyframe(el, propKey, nextId))]]]
    /\ nextId' = nextId + 1
    /\ UNCHANGED << currentTime, isPlaying, selectedId, isExporting, stageRef >>
    /\ UNCHANGED exportVars
    /\ wrapped' = FALSE
    /\ exported' = FALSE
    /\ previewEffect(pendingFrames, animationFrameRef)
    /\ UNCHANGED drag
    /\ UNCHANGED resolveVars

\* addKeyframe(id, propKey); uuidv4 hands out nextId
addKeyframe(id, propKey) ==
    /\ selectedElement # {}
    /\ nextId <= MaxIds
    /\ project' = [project EXCEPT !.elements =
           [i \in DOMAIN @ |->
               LET el == @[i]
               IN  IF el.id # id THEN el
                   ELSE [el EXCEPT !.keyframes =
                            Append(filteredKeyframes(el, propKey),
                                   newKeyframe(el, propKey, nextId))]]]
    /\ nextId' = nextId + 1
    /\ UNCHANGED << currentTime, isPlaying, selectedId, isExporting, stageRef >>
    /\ UNCHANGED exportVars
    /\ wrapped' = FALSE
    /\ exported' = FALSE
    /\ previewEffect(pendingFrames, animationFrameRef)
    /\ UNCHANGED drag
    /\ UNCHANGED resolveVars

\* the Stage of EditorCanvas mounts and fills stageRef
mountStage ==
    /\ stageRef = Null
    /\ stageRef' = "stage"
    /\ UNCHANGED << project, currentTime, isPlaying, selectedId, isExporting,
                    nextId >>
    /\ UNCHANGED exportVars
    /\ UNCHANGED wrapped
    /\ UNCHANGED exported
    /\ previewEffect(pendingFrames, animationFrameRef)
    /\ UNCHANGED drag
    /\ UNCHANGED resolveVars


(***************************************************************************)
(* The canvas (EditorCanvas): the elements handed to the renderer.         *)
(***************************************************************************)
\* currentTime >= el.startTime && currentTime <= (el.startTime + el.duration)
isVisible(el, time) ==
    /\ RLeq(el.startTime, time)
    /\ RLeq(time, RAdd(el.startTime, el.duration))

\* insert el behind every element whose zIndex is not greater (stable)
RECURSIVE InsertByZIndex(_, _)
InsertByZIndex(sorted, el) ==
    IF sorted = << >> THEN << el >>
    ELSE IF RLess(el.props["zIndex"].num, Head(sorted).props["zIndex"].num)
    THEN << el >> \o sorted
    ELSE << Head(sorted) >> \o InsertByZIndex(Tail(sorted), el)

\* .sort((a, b) => a.props.zIndex - b.props.zIndex)
RECURSIVE SortByZIndex(_)
SortByZIndex(els) ==
    IF els = << >> THEN << >>
    ELSE InsertByZIndex(SortByZIndex(SubSeq(els, 1, Len(els) - 1)), els[Len(els)])

\* variant: the window is open at its end
visibleElementsOpenEnd(elements, time) ==
    SelectSeq(elements,
              LAMBDA el : /\ RLeq(el.startTime, time)
                          /\ RLess(time, RAdd(el.startTime, el.duration)))

\* elements.filter(...)
visibleElements(elements, time) ==
    SelectSeq(elements, LAMBDA el : isVisible(el, time))

\* variant: the elements are drawn in the order of their resolved zIndex
drawnElementsByResolved(elements, time) ==
    LET shown == visibleElements(elements, time)
        keyed == [i \in 1..Len(shown) |->
                     [shown[i] EXCEPT !.props =
                         Spread(@, [k \in {"zIndex"} |->
                                      Get(getInterpolatedProps(shown[i], time),
                                          "zIndex")])]]
        sorted == SortByZIndex(keyed)
    IN  [i \in 1..Len(sorted) |->
            [id |-> sorted[i].id,
             currentProps |->
                 getInterpolatedProps(
                     CHOOSE el \in {shown[j] : j \in 1..Len(shown)} :
                         el.id = sorted[i].id, time)]]

\* the children of the Layer, in paint order: the visible elements sorted by
\* zIndex, each with the props getInterpolatedProps gives it
drawnElements(elements, time) ==
    LET sorted == SortByZIndex(visibleElements(elements, time))
    IN  [i \in 1..Len(sorted) |->
            [id |-> sorted[i].id,
             currentProps |-> getInterpolatedProps(sorted[i], time)]]

\* what EditorCanvas renders in the current state
canvasChildren == drawnElements(project.elements, currentTime)

(***************************************************************************)
(* Playback clock: preview.                                                *)
(***************************************************************************)
\* frame-to-frame delays the preview sees: none (the first frame) and 1 s
DeltaTimes == {DZero, DOfSeconds(1)}

\* variant: the tick advances the time whether or not preview is playing
animateAlways(deltaTime) ==
    /\ pendingFrames > 0
    /\ LET next == DAdd(currentTime, deltaTime)
       IN  IF DGeq(next, DOfSeconds(project.duration))
           THEN isPlaying' = FALSE /\ currentTime' = DZero /\ wrapped' = TRUE
           ELSE isPlaying' = isPlaying /\ currentTime' = next
                /\ UNCHANGED wrapped
    /\ UNCHANGED << project, selectedId, isExporting, stageRef, nextId >>
    /\ UNCHANGED exportVars
    /\ UNCHANGED exported
    /\ previewEffect(requestAnimationFrame(pendingFrames - 1), "pending")
    /\ UNCHANGED drag
    /\ UNCHANGED resolveVars

\* one animation frame: the animate callback the effect subscribed for the
\* current isPlaying and project.duration, with its setCurrentTime updater;
\* its last statement requests the next frame and stores the handle, and the
\* effect runs again if the updater has stopped the clock
animate(deltaTime) ==
    /\ pendingFrames > 0
    /\ IF isPlaying
       THEN LET next == DAdd(currentTime, deltaTime)
            IN  IF DGeq(next, DOfSeconds(project.duration))
                THEN isPlaying' = FALSE /\ currentTime' = DZero /\ wrapped' = TRUE
                ELSE isPlaying' = isPlaying /\ currentTime' = next
                     /\ UNCHANGED wrapped
       ELSE UNCHANGED << isPlaying, currentTime, wrapped >>
    /\ UNCHANGED << project, selectedId, isExporting, stageRef, nextId >>
    /\ UNCHANGED exportVars
    /\ UNCHANGED exported
    /\ previewEffect(requestAnimationFrame(pendingFrames - 1), "pending")
    /\ UNCHANGED drag
    /\ UNCHANGED resolveVars

\* onTogglePlay={() => setIsPlaying(!isPlaying)}
onTogglePlay ==
    /\ isPlaying' = ~isPlaying
    /\ UNCHANGED << project, currentTime, selectedId, isExporting, stageRef,
                    nextId >>
    /\ UNCHANGED exportVars
    /\ wrapped' = FALSE
    /\ exported' = FALSE
    /\ previewEffect(pendingFrames, animationFrameRef)
    /\ UNCHANGED drag
    /\ UNCHANGED resolveVars

\* onTimeChange={setCurrentTime}
onTimeChange(newTime) ==
    /\ currentTime' = newTime
    /\ UNCHANGED << project, isPlaying, selectedId, isExporting, stageRef, nextId >>
    /\ UNCHANGED exportVars
    /\ wrapped' = FALSE
    /\ exported' = FALSE
    /\ previewEffect(pendingFrames, animationFrameRef)
    /\ UNCHANGED drag
    /\ UNCHANGED resolveVars

ZOOM == 100

\* pointer positions on the ruler, in pixels right of the track sidebar
ScrubPixels == {-25, 50, 1100}

\* Math.max(0, Math.min(duration, x / ZOOM)) for x a multiple of ZOOM / 4
scrubTime(x, duration) ==
    LET time == DOfDyadic((4 * x) \div ZOOM, 2)
        d == DOfSeconds(duration)
    IN  IF x <= 0 THEN DZero
        ELSE IF DLess(d, time) THEN d
        ELSE time

\* mouse down on the ruler
handleScrub(x) ==
    /\ ~overlayShown
    /\ onTimeChange(scrubTime(x, project.duration))

\* the skip-back button
skipBack == onTimeChange(DZero)

(***************************************************************************)
(* Timeline: moving and resizing clips.  A mouse down on a clip or on one  *)
(* of its edge handles captures the pointer position and the element's     *)
(* times and attaches window listeners; they stay until the mouse is up.   *)
(***************************************************************************)
\* the least clip duration a resize leaves, 0.1 s
MinClipDuration == Rat(1, 10)

\* Math.max(0, originalStartTime + (diff / ZOOM))
movedStartTime(originalStartTime, diff) ==
    RMax(RInt(0), RAdd(originalStartTime, Rat(diff, ZOOM)))

\* Math.max(0.1, initialDuration + diffSeconds)
resizedRight(initialDuration, diffSeconds) ==
    [k \in {"duration"} |-> RMax(MinClipDuration, RAdd(initialDuration, diffSeconds))]

\* variant: the left edge is not held back by the minimal duration
resizedLeftNoMinimum(initialStartTime, initialDuration, diffSeconds) ==
    LET newStartTime == RAdd(initialStartTime, diffSeconds)
        newDuration == RSub(initialDuration, diffSeconds)
    IN  IF RLess(newStartTime, RInt(0))
        THEN [k \in {"startTime", "duration"} |->
                 IF k = "startTime" THEN RInt(0)
                 ELSE RAdd(initialStartTime, initialDuration)]
        ELSE [k \in {"startTime", "duration"} |->
                 IF k = "startTime" THEN newStartTime ELSE newDuration]

\* the left edge: start time and duration change together, the end point stays
resizedLeft(initialStartTime, initialDuration, diffSeconds) ==
    LET end == RAdd(initialStartTime, initialDuration)
        startTime1 == RAdd(initialStartTime, diffSeconds)
        duration1 == RSub(initialDuration, diffSeconds)
        atZero == RLess(startTime1, RInt(0))
        startTime2 == IF atZero THEN RInt(0) ELSE startTime1
        duration2 == IF atZero THEN end ELSE duration1
        tooShort == RLess(duration2, MinClipDuration)
    IN  [k \in {"startTime", "duration"} |->
            IF k = "startTime"
            THEN IF tooShort THEN RSub(end, MinClipDuration) ELSE startTime2
            ELSE IF tooShort THEN MinClipDuration ELSE duration2]

\* the element of the given id, as the timeline row was rendered with it
timelineElement(id) ==
    CHOOSE el \in {project.elements[i] : i \in 1..Len(project.elements)} : el.id = id

hasElement(id) == \E i \in 1..Len(project.elements) : project.elements[i].id = id

\* what a mouse down captures
captured(kind, el, pageX) ==
    [kind |-> kind, id |-> el.id, startX |-> pageX,
     initialStartTime |-> el.startTime, initialDuration |-> el.duration]

\* onMouseDown of a clip: selects it and starts a move
clipMouseDown(id, pageX) ==
    /\ ~overlayShown
    /\ drag = NoDrag
    /\ hasElement(id)
    /\ selectedId' = id
    /\ drag' = captured("move", timelineElement(id), pageX)
    /\ UNCHANGED << project, currentTime, isPlaying, isExporting, stageRef, nextId >>
    /\ UNCHANGED exportVars
    /\ wrapped' = FALSE
    /\ exported' = FALSE
    /\ previewEffect(pendingFrames, animationFrameRef)
    /\ UNCHANGED resolveVars

\* handleResize(e, el, edge): onMouseDown of an edge handle; the event does not
\* reach the clip, so nothing is selected
handleResize(id, edge, pageX) ==
    /\ ~overlayShown
    /\ drag = NoDrag
    /\ hasElement(id)
    /\ drag' = captured(edge, timelineElement(id), pageX)
    /\ UNCHANGED << project, currentTime, isPlaying, selectedId, isExporting,
                    stageRef, nextId >>
    /\ UNCHANGED exportVars
    /\ wrapped' = FALSE
    /\ exported' = FALSE
    /\ previewEffect(pendingFrames, animationFrameRef)
    /\ UNCHANGED resolveVars

\* the update the attached handleMouseMove passes to onElementUpdate
dragUpdate(pageX) ==
    LET diff == pageX - drag.startX
        diffSeconds == Rat(diff, ZOOM)
    IN  IF drag.kind = "move"
        THEN [k \in {"startTime"} |-> movedStartTime(drag.initialStartTime, diff)]
        ELSE IF drag.kind = "right"
        THEN resizedRight(drag.initialDuration, diffSeconds)
        ELSE resizedLeft(drag.initialStartTime, drag.initialDuration, diffSeconds)

\* the end of the clip after the update
endAfter(id, update) ==
    LET el == Spread(timelineElement(id), update)
    IN  RAdd(el.startTime, el.duration)

\* handleMouseMove of the gesture in progress, on window
handleMouseMove(pageX) ==
    /\ drag # NoDrag
    /\ hasElement(drag.id)
    /\ RLeq(endAfter(drag.id, dragUpdate(pageX)), RInt(MaxClipEnd))
    /\ project' = [project EXCEPT
                      !.elements = updatedElements(drag.id, dragUpdate(pageX))]
    /\ UNCHANGED << currentTime, isPlaying, selectedId, isExporting, stageRef,
                    nextId >>
    /\ UNCHANGED exportVars
    /\ wrapped' = FALSE
    /\ exported' = FALSE
    /\ previewEffect(pendingFrames, animationFrameRef)
    /\ UNCHANGED drag
    /\ UNCHANGED resolveVars

\* handleMouseUp: the listeners are removed
handleMouseUp ==
    /\ drag # NoDrag
    /\ drag' = NoDrag
    /\ UNCHANGED << project, currentTime, isPlaying, selectedId, isExporting,
                    stageRef, nextId >>
    /\ UNCHANGED exportVars
    /\ wrapped' = FALSE
    /\ exported' = FALSE
    /\ previewEffect(pendingFrames, animationFrameRef)
    /\ UNCHANGED resolveVars

(***************************************************************************)
(* Playback clock: export capture loop.                                    *)
(***************************************************************************)
dt == DRecip(FPS)

\* one call of recordLoop; duration is the project.duration handleExport saw
recordLoop(tt, duration) ==
    IF DGreater(tt, DOfSeconds(duration))
    THEN \* mediaRecorder.stop()
         /\ exportPc' = "stopping"
         /\ UNCHANGED << currentTime, t, steps >>
    ELSE /\ currentTime' = tt
         /\ t' = DAdd(tt, dt)
         /\ steps' = steps + 1
         /\ exportPc' = "loop"

\* the state handleExport leaves behind when it passes its first guard
afterRequest ==
    [Observable EXCEPT !.isExporting = TRUE, !.isPlaying = FALSE, !.selectedId = NoId]

NoRequest == << >>

\* variant: the export start deletes the selected element instead of
\* deselecting it
handleExportDeletesSelected ==
    /\ IF isExporting \/ stageRef = Null
       THEN UNCHANGED << isExporting, isPlaying, selectedId, exportPc,
                         exportDuration, steps, atRequest, project >>
       ELSE /\ isExporting' = TRUE
            /\ isPlaying' = FALSE
            /\ selectedId' = NoId
            /\ exportPc' = "wait"
            /\ exportDuration' = project.duration
            /\ steps' = 0
            /\ atRequest' = [before |-> Observable, after |-> afterRequest]
            /\ project' = [project EXCEPT !.elements =
                               SelectSeq(@, LAMBDA e : e.id # selectedId)]
    /\ UNCHANGED << currentTime, stageRef, nextId, t >>
    /\ wrapped' = FALSE
    /\ exported' = FALSE
    /\ previewEffect(pendingFrames, animationFrameRef)
    /\ UNCHANGED drag
    /\ UNCHANGED resolveVars

\* variant: handleExport without the isExporting test of its guard
handleExportReentrant ==
    /\ IF stageRef = Null
       THEN UNCHANGED << isExporting, isPlaying, selectedId, exportPc,
                         exportDuration, steps, atRequest >>
       ELSE /\ isExporting' = TRUE
            /\ isPlaying' = FALSE
            /\ selectedId' = NoId
            /\ exportPc' = "wait"
            /\ exportDuration' = project.duration
            /\ steps' = 0
            /\ atRequest' = [before |-> Observable, after |-> afterRequest]
    /\ UNCHANGED << project, currentTime, stageRef, nextId, t >>
    /\ wrapped' = FALSE
    /\ exported' = FALSE
    /\ previewEffect(pendingFrames, animationFrameRef)
    /\ UNCHANGED drag
    /\ UNCHANGED resolveVars

\* handleExport up to its first await
handleExport ==
    /\ IF isExporting \/ stageRef = Null
       THEN UNCHANGED << isExporting, isPlaying, selectedId, exportPc,
                         exportDuration, steps, atRequest >>
       ELSE /\ isExporting' = TRUE
            /\ isPlaying' = FALSE
            /\ selectedId' = NoId
            /\ exportPc' = "wait"
            /\ exportDuration' = project.duration
            /\ steps' = 0
            /\ atRequest' = [before |-> Observable, after |-> afterRequest]
    /\ UNCHANGED << project, currentTime, stageRef, nextId, t >>
    /\ wrapped' = FALSE
    /\ exported' = FALSE
    /\ previewEffect(pendingFrames, animationFrameRef)
    /\ UNCHANGED drag
    /\ UNCHANGED resolveVars

\* handleExport after the 100 ms wait: the canvas lookup, the recorder set-up
\* and the first, synchronous call of recordLoop
exportAfterWait(canvas) ==
    /\ exportPc = "wait"
    /\ IF ~canvas
       THEN /\ isExporting' = FALSE
            /\ exportPc' = "idle"
            /\ UNCHANGED << currentTime, t, steps >>
       ELSE /\ recordLoop(DZero, exportDuration)
            /\ UNCHANGED isExporting
    /\ atRequest' = NoRequest
    /\ UNCHANGED << project, isPlaying, selectedId, stageRef, nextId,
                    exportDuration >>
    /\ UNCHANGED wrapped
    /\ UNCHANGED exported
    /\ previewEffect(pendingFrames, animationFrameRef)
    /\ UNCHANGED drag
    /\ UNCHANGED resolveVars

\* setTimeout(recordLoop, 1000 / FPS) fires
recordLoopTimer ==
    /\ exportPc = "loop"
    /\ recordLoop(t, exportDuration)
    /\ UNCHANGED << project, isPlaying, selectedId, isExporting, stageRef, nextId,
                    exportDuration, atRequest >>
    /\ UNCHANGED wrapped
    /\ UNCHANGED exported
    /\ previewEffect(pendingFrames, animationFrameRef)
    /\ UNCHANGED drag
    /\ UNCHANGED resolveVars

\* variant: onstop forgets setIsExporting(false)
onstopStillExporting ==
    /\ exportPc = "stopping"
    /\ currentTime' = DZero
    /\ exportPc' = "idle"
    /\ t' = DZero
    /\ steps' = 0
    /\ UNCHANGED << project, isPlaying, selectedId, isExporting, stageRef, nextId,
                    exportDuration, atRequest >>
    /\ UNCHANGED wrapped
    /\ exported' = TRUE
    /\ previewEffect(pendingFrames, animationFrameRef)
    /\ UNCHANGED drag
    /\ UNCHANGED resolveVars

\* mediaRecorder.onstop; the finished handleExport closure (t, dt, the captured
\* duration) is dropped with it
onstop ==
    /\ exportPc = "stopping"
    /\ isExporting' = FALSE
    /\ currentTime' = DZero
    /\ exportPc' = "idle"
    /\ t' = DZero
    /\ steps' = 0
    /\ UNCHANGED << project, isPlaying, selectedId, stageRef, nextId,
                    exportDuration, atRequest >>
    /\ UNCHANGED wrapped
    /\ exported' = TRUE
    /\ previewEffect(pendingFrames, animationFrameRef)
    /\ UNCHANGED drag
    /\ UNCHANGED resolveVars

(***************************************************************************)
(* The clock specification.                                                *)
(***************************************************************************)
Init ==
    /\ project = [elements |-> << >>, duration |-> InitialDuration,
                  backgroundColor |-> "#FFFFFF"]
    /\ currentTime = DZero
    /\ isPlaying = FALSE
    /\ selectedId = NoId
    /\ isExporting = FALSE
    /\ stageRef = Null
    /\ nextId = 1
    /\ exportPc = "idle"
    /\ t = DZero
    /\ exportDuration = InitialDuration
    /\ steps = 0
    /\ atRequest = NoRequest
    /\ wrapped = FALSE
    /\ exported = FALSE
    /\ pendingFrames = 1
    /\ animationFrameRef = "pending"
    /\ drag = NoDrag
    /\ element = << >>
    /\ queryTime = RInt(0)
    /\ resolved = << >>
    /\ resolvePc = "unused"

\* element kinds the toolbar adds in the clock specification
AddedTypes == {"rect"}

Next ==
    \/ mountStage
    \/ \E type \in AddedTypes : addElement(type)
    \/ \E id \in 0..MaxElements : onSelect(id)
    \/ \E value \in 0..MaxDuration : onUpdateDuration(value)
    \/ \E deltaTime \in DeltaTimes : animate(deltaTime)
    \/ onTogglePlay
    \/ \E x \in ScrubPixels : handleScrub(x)
    \/ skipBack
    \/ handleExport
    \/ \E canvas \in BOOLEAN : exportAfterWait(canvas)
    \/ recordLoopTimer
    \/ onstop

Spec == Init /\ [][Next]_vars


(***************************************************************************)
(* The resolver specification: getInterpolatedProps on bounded inputs.     *)
(***************************************************************************)
\* single-property overrides as addKeyframe records them (numeric and
\* categorical), and one override of two properties
KeyframeProps ==
    {[k \in {"x"} |-> NumI(v)] : v \in {0, 30}}
    \cup {[k \in {"y"} |-> NumI(50)]}
    \cup {[k \in {"fill"} |-> Str(c)] : c \in {"#FFB7B2", "#A7F3D0"}}
    \cup {[k \in {"x", "y"} |-> IF k = "x" THEN NumI(v) ELSE NumI(70)] : v \in {0, 30}}

KeyframeTimes == {RInt(n) : n \in 0..MaxTime}

\* query times every half second from -1/2 s to MaxTime + 1/2 s
QueryTimes == {Rat(n, 2) : n \in (0 - 1)..(2 * MaxTime + 1)}

KeyframeLists ==
    UNION {[1..n -> KeyframeTimes \X KeyframeProps] : n \in 0..MaxKeyframes}

\* keyframe i of the list gets the id i
keyframesOf(list) ==
    [i \in 1..Len(list) |-> [id |-> i, time |-> list[i][1], props |-> list[i][2]]]

ResolverPresets == {NoPreset, "none", "fadeIn"}

\* a new rectangle (complete base props) with the given keyframes and preset
resolverElement(list, preset) ==
    [newElement("rect", 1) EXCEPT !.keyframes = keyframesOf(list),
                                  !.animationPreset = preset]

InitResolve ==
    /\ project = [elements |-> << >>, duration |-> InitialDuration,
                  backgroundColor |-> "#FFFFFF"]
    /\ currentTime = DZero
    /\ isPlaying = FALSE
    /\ selectedId = NoId
    /\ isExporting = FALSE
    /\ stageRef = Null
    /\ nextId = 1
    /\ exportPc = "idle"
    /\ t = DZero
    /\ exportDuration = InitialDuration
    /\ steps = 0
    /\ atRequest = NoRequest
    /\ wrapped = FALSE
    /\ exported = FALSE
    /\ pendingFrames = 1
    /\ animationFrameRef = "pending"
    /\ drag = NoDrag
    /\ \E list \in KeyframeLists, preset \in ResolverPresets :
           element = resolverElement(list, preset)
    /\ queryTime \in QueryTimes
    /\ resolved = << >>
    /\ resolvePc = "input"

\* variant: the keyframes are sorted in place, in the element itself
resolveSortsInPlace ==
    /\ resolvePc = "input"
    /\ resolved' = getInterpolatedProps(element, queryTime)
    /\ resolvePc' = "done"
    /\ element' = [element EXCEPT !.keyframes = sortedKeyframes(element)]
    /\ UNCHANGED queryTime
    /\ UNCHANGED clockVars

resolve ==
    /\ resolvePc = "input"
    /\ resolved' = getInterpolatedProps(element, queryTime)
    /\ resolvePc' = "done"
    /\ UNCHANGED << element, queryTime >>
    /\ UNCHANGED clockVars

NextResolve == resolve

SpecResolve == InitResolve /\ [][NextResolve]_vars


(***************************************************************************)
(* The preset specification: getInterpolatedProps on elements that carry   *)
(* an animation preset, with the clip moved and shortened on the timeline. *)
(***************************************************************************)
\* overrides of the properties the presets work on
PresetKeyframeProps ==
    {[k \in {"opacity"} |-> Num(Rat(1, 2))], [k \in {"x"} |-> NumI(0)]}

PresetKeyframeLists ==
    UNION {[1..n -> KeyframeTimes \X PresetKeyframeProps] : n \in 0..MaxKeyframes}

\* every preset of the Animate popover, the unset preset of a new element,
\* and a name the switch has no case for
ElementPresets == ANIMATION_PRESETS \cup {NoPreset, "spin"}

\* values of the animation duration slider, and the values of an element
\* that did not get its animationDuration from the slider: unset, 0, negative
AnimationDurations == {NumI(1), NumI(2), Undefined, NumI(0), NumI(0 - 1)}

\* clip positions on the timeline
StartTimes == {RInt(0), Rat(1, 2)}

\* a rectangle whose clip was shortened to 2 s
presetElement(list, preset, animationDuration, startTime) ==
    [newElement("rect", 1) EXCEPT !.keyframes = keyframesOf(list),
                                  !.animationPreset = preset,
                                  !.animationDuration = animationDuration,
                                  !.startTime = startTime,
                                  !.duration = RInt(2)]

InitPreset ==
    /\ project = [elements |-> << >>, duration |-> InitialDuration,
                  backgroundColor |-> "#FFFFFF"]
    /\ currentTime = DZero
    /\ isPlaying = FALSE
    /\ selectedId = NoId
    /\ isExporting = FALSE
    /\ stageRef = Null
    /\ nextId = 1
    /\ exportPc = "idle"
    /\ t = DZero
    /\ exportDuration = InitialDuration
    /\ steps = 0
    /\ atRequest = NoRequest
    /\ wrapped = FALSE
    /\ exported = FALSE
    /\ pendingFrames = 1
    /\ animationFrameRef = "pending"
    /\ drag = NoDrag
    /\ \E list \in PresetKeyframeLists, preset \in ElementPresets,
          animationDuration \in AnimationDurations, startTime \in StartTimes :
           element = presetElement(list, preset, animationDuration, startTime)
    /\ queryTime \in QueryTimes
    /\ resolved = << >>
    /\ resolvePc = "input"

SpecPreset == InitPreset /\ [][NextResolve]_vars


(***************************************************************************)
(* The canvas specification: a project of up to MaxLayers rectangles whose *)
(* clips were moved and resized on the timeline and whose zIndex was set   *)
(* in the Position popover, one of them possibly loaded with a keyframe on *)
(* zIndex; the user seeks.  Times are multiples of 1/64 s.                 *)
(***************************************************************************)
\* clips as <<startTime, duration>>
CanvasClips == {<< RInt(2), RInt(3) >>, << RInt(0), RInt(5) >>, << RInt(0), RInt(2) >>}

CanvasZIndexes == {0, 1}

CanvasKeyframes ==
    {<< >>, << << RInt(0), [k \in {"zIndex"} |-> NumI(9)] >> >>}

\* the window boundaries 2, 3 and 5 s, and the instants 1/64 s around them
CanvasTimes == {Rat(n, 64) : n \in {127, 128, 129, 191, 192, 193, 319, 320, 321}}

\* the i-th rectangle added, then edited
canvasElement(i, clip, zIndex, list) ==
    [elementOf("rect", i, i - 1) EXCEPT !.startTime = clip[1],
                                        !.duration = clip[2],
                                        !.props["zIndex"] = NumI(zIndex),
                                        !.keyframes = keyframesOf(list)]

CanvasProjects ==
    UNION {[1..n -> CanvasClips \X CanvasZIndexes \X CanvasKeyframes] :
              n \in 1..MaxLayers}

InitCanvas ==
    /\ \E choice \in CanvasProjects :
           project = [elements |->
                          [i \in 1..Len(choice) |->
                              canvasElement(i, choice[i][1], choice[i][2],
                                            choice[i][3])],
                      duration |-> InitialDuration, backgroundColor |-> "#FFFFFF"]
    /\ currentTime = RInt(0)
    /\ isPlaying = FALSE
    /\ selectedId = NoId
    /\ isExporting = FALSE
    /\ stageRef = "stage"
    /\ nextId = Len(project.elements) + 1
    /\ exportPc = "idle"
    /\ t = DZero
    /\ exportDuration = InitialDuration
    /\ steps = 0
    /\ atRequest = NoRequest
    /\ wrapped = FALSE
    /\ exported = FALSE
    /\ pendingFrames = 1
    /\ animationFrameRef = "pending"
    /\ drag = NoDrag
    /\ element = << >>
    /\ queryTime = RInt(0)
    /\ resolved = << >>
    /\ resolvePc = "unused"

NextCanvas == \E newTime \in CanvasTimes : onTimeChange(newTime)

SpecCanvas == InitCanvas /\ [][NextCanvas]_vars


(***************************************************************************)
(* The recording specification: the user adds a rectangle, moves the       *)
(* playhead, edits the selected element in the toolbar and records         *)
(* keyframes.  The playhead positions are multiples of 1/64 s, which are   *)
(* doubles, as are their differences, and none of them lies between 0.05   *)
(* and the double next to it, so the exact rationals of this specification *)
(* are the values the code computes for times.                             *)
(***************************************************************************)
SeekTimes == {Rat(n, 64) : n \in 0..MaxSeek}

\* the keyframe buttons of the toolbar's Position popover that are modelled
RecordedProps == {"x", "opacity"}

\* the toolbar edits that are modelled: a preset choice and a property edit
ToolbarUpdates ==
    {[k \in {"animationPreset"} |-> "fadeIn"],
     [k \in {"opacity"} |-> Num(Rat(1, 2))]}

InitRecord ==
    /\ project = [elements |-> << >>, duration |-> InitialDuration,
                  backgroundColor |-> "#FFFFFF"]
    /\ currentTime = RInt(0)
    /\ isPlaying = FALSE
    /\ selectedId = NoId
    /\ isExporting = FALSE
    /\ stageRef = Null
    /\ nextId = 1
    /\ exportPc = "idle"
    /\ t = DZero
    /\ exportDuration = InitialDuration
    /\ steps = 0
    /\ atRequest = NoRequest
    /\ wrapped = FALSE
    /\ exported = FALSE
    /\ pendingFrames = 1
    /\ animationFrameRef = "pending"
    /\ drag = NoDrag
    /\ element = << >>
    /\ queryTime = RInt(0)
    /\ resolved = << >>
    /\ resolvePc = "unused"

\* the toolbar shows the element controls while an element is selected
NextRecord ==
    \/ project.elements = << >> /\ \E type \in AddedTypes : addElement(type)
    \/ \E newTime \in SeekTimes : onTimeChange(newTime)
    \/ \E update \in ToolbarUpdates : updateElement(selectedId, update)
    \/ \E propKey \in RecordedProps : addKeyframe(selectedId, propKey)

SpecRecord == InitRecord /\ [][NextRecord]_vars


(***************************************************************************)
(* The timeline specification: one element is added, then its clip is      *)
(* moved and resized on the timeline and the project duration is edited.   *)
(***************************************************************************)
\* pointer positions of the mouse down and of the mouse moves, in page pixels
MouseDownPixels == {500}
MouseMovePixels == {0, 250, 750, 1100}

\* what is typed into the duration input
DurationInputs == (0 - 1)..MaxDuration

NextTimeline ==
    \/ project.elements = << >> /\ \E type \in AddedTypes : addElement(type)
    \/ \E id \in 0..MaxElements : onSelect(id)
    \/ \E value \in DurationInputs : onUpdateDuration(value)
    \/ \E id \in 1..MaxElements, pageX \in MouseDownPixels : clipMouseDown(id, pageX)
    \/ \E id \in 1..MaxElements, edge \in {"left", "right"}, pageX \in MouseDownPixels :
           handleResize(id, edge, pageX)
    \/ \E pageX \in MouseMovePixels : handleMouseMove(pageX)
    \/ handleMouseUp

SpecTimeline == InitRecord /\ [][NextTimeline]_vars


(***************************************************************************)
(* The keyframe specification: addKeyframe as a function of its id, on a   *)
(* project of two elements that carry recorded keyframes already.          *)
(***************************************************************************)
\* the times the earlier keyframes were recorded at
RecordedTimes == {RInt(0), Rat(4, 64)}

\* keyframe lists earlier recordings have left: keyframes of one property
\* each, those of the same property at different times
RecordedLists ==
    {list \in UNION {[1..n -> RecordedTimes \X PresetKeyframeProps] :
                        n \in 0..MaxKeyframes} :
        \A i, j \in 1..Len(list) :
            (i # j /\ DOMAIN list[i][2] = DOMAIN list[j][2]) => list[i][1] # list[j][1]}

\* the ids addKeyframe is called with: the two elements and no element
AddKeyframeIds == 1..3

InitKeyframe ==
    /\ \E list \in RecordedLists :
           project = [elements |->
                          << [elementOf("rect", 1, 0) EXCEPT
                                 !.keyframes = keyframesOf(list)],
                             [elementOf("rect", 2, 1) EXCEPT
                                 !.keyframes =
                                     keyframesOf(<< <<RInt(0), [k \in {"x"} |-> NumI(0)]>> >>)] >>,
                      duration |-> InitialDuration, backgroundColor |-> "#FFFFFF"]
    /\ currentTime \in SeekTimes
    /\ isPlaying = FALSE
    /\ selectedId \in {1, 2}
    /\ isExporting = FALSE
    /\ stageRef = Null
    /\ nextId = MaxKeyframes + 1
    /\ exportPc = "idle"
    /\ t = DZero
    /\ exportDuration = InitialDuration
    /\ steps = 0
    /\ atRequest = NoRequest
    /\ wrapped = FALSE
    /\ exported = FALSE
    /\ pendingFrames = 1
    /\ animationFrameRef = "pending"
    /\ drag = NoDrag
    /\ element = << >>
    /\ queryTime = RInt(0)
    /\ resolved = << >>
    /\ resolvePc = "unused"

NextKeyframe ==
    \E id \in AddKeyframeIds, propKey \in RecordedProps : addKeyframe(id, propKey)

SpecKeyframe == InitKeyframe /\ [][NextKeyframe]_vars


(***************************************************************************)
(* Fairness: the browser delivers every timer and recorder callback the    *)
(* export has scheduled (the 100 ms wait, each 1000/FPS ms timeout, and    *)
(* the recorder's stop event).  User actions and animation frames carry no *)
(* fairness.                                                               *)
(***************************************************************************)
\* the callbacks of a running handleExport; at most one is pending at a time
exportStep ==
    \/ \E canvas \in BOOLEAN : exportAfterWait(canvas)
    \/ recordLoopTimer
    \/ onstop

\* the editor once a duration has been typed into the duration input
InitEdited ==
    /\ \E d \in MinDuration..MaxDuration :
           project = [elements |-> << >>, duration |-> d,
                      backgroundColor |-> "#FFFFFF"]
    /\ currentTime = DZero
    /\ isPlaying = FALSE
    /\ selectedId = NoId
    /\ isExporting = FALSE
    /\ stageRef = Null
    /\ nextId = 1
    /\ exportPc = "idle"
    /\ t = DZero
    /\ exportDuration = InitialDuration
    /\ steps = 0
    /\ atRequest = NoRequest
    /\ wrapped = FALSE
    /\ exported = FALSE
    /\ pendingFrames = 1
    /\ animationFrameRef = "pending"
    /\ drag = NoDrag
    /\ element = << >>
    /\ queryTime = RInt(0)
    /\ resolved = << >>
    /\ resolvePc = "unused"

\* the clock's operations; the element edits (addElement, onSelect) touch
\* project.elements, selectedId and nextId only and are left to Spec
NextClock ==
    \/ mountStage
    \/ \E value \in 0..MaxDuration : onUpdateDuration(value)
    \/ \E deltaTime \in DeltaTimes : animate(deltaTime)
    \/ onTogglePlay
    \/ \E x \in ScrubPixels : handleScrub(x)
    \/ skipBack
    \/ handleExport
    \/ exportStep

FairSpec == InitEdited /\ [][NextClock]_vars /\ WF_vars(exportStep)

(***************************************************************************)
(* Properties of the playback clock.                                       *)
(***************************************************************************)
exportStepsStarted == isExporting /\ exportPc \in {"loop", "stopping"}

\* a preview tick sets currentTime
previewWrites == isPlaying /\ \E deltaTime \in DeltaTimes : animate(deltaTime)

\* C1: when export starts while preview is playing, preview is stopped at the
\* moment the first export step sets currentTime, and from that step until
\* the export completes currentTime never holds a value written by a preview
\* tick.
C1_ExportOwnsTime ==
    /\ [][(exportPc = "wait" /\ exportPc' = "loop") => ~isPlaying']_vars
    /\ [][~(exportStepsStarted /\ previewWrites)]_vars

\* C2: preview and export are never both active, whatever the user does:
\* isPlaying and isExporting are never true together.
C2_ModesExclusive == ~(isPlaying /\ isExporting)

\* C3: an export of a project of duration D makes floor(D * FPS) + 1 steps
\* (one per frame time 0, 1/FPS, 2/FPS, ... up to D) before it stops the
\* recorder.
C3_StepCount == exportPc = "stopping" => steps = exportDuration * FPS + 1

C5_ExitResets ==
    [][(exportPc = "stopping" /\ exportPc' = "idle")
          => (currentTime' = DZero /\ ~isExporting' /\ ~isPlaying')]_vars

\* C6: an export that finds no canvas aborts with the state it was requested
\* in: isExporting, isPlaying, selectedId, currentTime and the project are what
\* they were before the request (nothing else having touched them meanwhile).
C6_AbortLeavesState ==
    [][(exportPc = "wait" /\ exportPc' = "idle" /\ Observable = atRequest.after)
          => (Observable' = atRequest.before)]_vars

(***************************************************************************)
(* Properties of the keyframe resolver.                                    *)
(***************************************************************************)
keyframeCount == Len(element.keyframes)

\* the keyframe list holds exactly (T1, P = v1) and (T2, P = v2), T1 < T2,
\* numeric, in either insertion order; first is the index of the earlier one
twoKeyframesOn(P, first) ==
    /\ keyframeCount = 2
    /\ first \in 1..2
    /\ DOMAIN element.keyframes[1].props = {P}
    /\ DOMAIN element.keyframes[2].props = {P}
    /\ IsNumber(element.keyframes[1].props[P])
    /\ IsNumber(element.keyframes[2].props[P])
    /\ RLess(element.keyframes[first].time, element.keyframes[3 - first].time)

\* v1 + (v2 - v1) * (t - T1) / (T2 - T1)
lineThrough(T1, v1, T2, v2, time) ==
    RAdd(v1, RDiv(RMul(RSub(v2, v1), RSub(time, T1)), RSub(T2, T1)))

\* C7: with only the keyframes (T1, P = v1), (T2, P = v2), T1 < T2, numeric,
\* and no preset, resolved P is v1 for t <= T1, v2 for t >= T2 and the point
\* of the line through both for T1 < t < T2.
C7_TwoKeyframes ==
    \A P \in ELEMENT_PROPS_WHITELIST : \A first \in 1..2 :
        (resolvePc = "done" /\ ~hasPreset(element) /\ twoKeyframesOn(P, first)) =>
            LET k1 == element.keyframes[first]
                k2 == element.keyframes[3 - first]
                v1 == k1.props[P].num
                v2 == k2.props[P].num
            IN  resolved[P] =
                    IF RLeq(queryTime, k1.time) THEN Num(v1)
                    ELSE IF RLeq(k2.time, queryTime) THEN Num(v2)
                    ELSE Num(lineThrough(k1.time, v1, k2.time, v2, queryTime))

\* interpolation between two different values, strictly inside the interval
C7_Witness ==
    /\ resolvePc = "done"
    /\ ~hasPreset(element)
    /\ twoKeyframesOn("x", 2)
    /\ element.keyframes[1].props["x"] # element.keyframes[2].props["x"]
    /\ RLess(element.keyframes[2].time, queryTime)
    /\ RLess(queryTime, element.keyframes[1].time)
    /\ resolved["x"] = NumI(15)

\* C8: with exactly one keyframe and no preset, every property the keyframe
\* defines resolves to the keyframe's value at every time, before and after
\* the keyframe, and every other property resolves to its base value.
C8_SingleKeyframe ==
    (resolvePc = "done" /\ ~hasPreset(element) /\ keyframeCount = 1) =>
        LET kf == element.keyframes[1]
        IN  /\ DOMAIN resolved = (DOMAIN element.props) \cup (DOMAIN kf.props)
            /\ \A k \in DOMAIN resolved :
                   resolved[k] = IF k \in DOMAIN kf.props THEN kf.props[k]
                                 ELSE element.props[k]

\* pre-hold: the query time lies before the only keyframe, whose value differs
\* from the base value
C8_Witness ==
    /\ resolvePc = "done"
    /\ ~hasPreset(element)
    /\ keyframeCount = 1
    /\ RLess(queryTime, element.keyframes[1].time)
    /\ DOMAIN element.keyframes[1].props = {"x"}
    /\ resolved["x"] = element.keyframes[1].props["x"]
    /\ resolved["x"] # element.props["x"]

\* C9: with no keyframes and no preset (unset or 'none') the resolved property
\* set is the element's base props, at every time.
C9_NoKeyframesNoPreset ==
    (resolvePc = "done" /\ ~hasPreset(element) /\ keyframeCount = 0) =>
        resolved = element.props

C9_Witness ==
    /\ resolvePc = "done"
    /\ element.animationPreset = "none"
    /\ keyframeCount = 0
    /\ resolved = element.props

\* C10: for complete base props, any keyframes and any time, every required
\* field of the resolved property set has a defined value.
C10_RequiredDefined ==
    resolvePc = "done" =>
        \A k \in RequiredProps : k \in DOMAIN resolved /\ resolved[k] # Undefined

\* the keyframes around the query time in the sorted list; 0 = none
prevAtQuery == prevIndex(sortedKeyframes(element), queryTime)

nextAtQuery == nextIndex(sortedKeyframes(element), queryTime)

\* C11: when a previous and a next keyframe both exist, a key the next
\* keyframe defines and the previous one lacks resolves to the next keyframe's
\* value, and a key both define but not both numerically resolves to the
\* previous keyframe's value.
C11_SnapValues ==
    (resolvePc = "done" /\ ~hasPreset(element) /\ prevAtQuery # 0
        /\ nextAtQuery # 0) =>
        LET prevKeyframe == sortedKeyframes(element)[prevAtQuery]
            nextKeyframe == sortedKeyframes(element)[nextAtQuery]
        IN  \A k \in DOMAIN nextKeyframe.props :
                /\ k \notin DOMAIN prevKeyframe.props =>
                       resolved[k] = nextKeyframe.props[k]
                /\ (k \in DOMAIN prevKeyframe.props
                      /\ ~(IsNumber(prevKeyframe.props[k])
                             /\ IsNumber(nextKeyframe.props[k]))) =>
                       resolved[k] = prevKeyframe.props[k]

(***************************************************************************)
(* Properties of recording keyframes.                                      *)
(***************************************************************************)
\* positions in project.elements of the selected element
selectedIndex ==
    {i \in 1..Len(project.elements) : project.elements[i].id = selectedId}

\* positions in kfs of the keyframes that define P within 0.05 s of time
keyframesNear(kfs, P, time) ==
    {j \in 1..Len(kfs) :
        /\ P \in DOMAIN kfs[j].props
        /\ RLeq(RAbs(RSub(kfs[j].time, time)), KeyframeTolerance)}

\* C12: after addKeyframe has recorded property P at the current time t,
\* exactly one keyframe of the element defines P within 0.05 s of t
\* (inclusive): the new one, at time t; the earlier ones in that window are
\* gone.
C12_RecordReplaces ==
    [][\A P \in RecordedProps : addKeyframe(selectedId, P) =>
          \A i \in selectedIndex :
              LET kfs == project'.elements[i].keyframes
              IN  /\ keyframesNear(kfs, P, currentTime) = {Len(kfs)}
                  /\ kfs[Len(kfs)].id = nextId
                  /\ kfs[Len(kfs)].time = currentTime]_vars

\* the first element holds only the keyframe recorded last of three: the
\* two recorded before it lay in its window and were replaced
C12_Witness ==
    /\ Len(project.elements) = 1
    /\ project.elements[1].id = 1
    /\ nextId = 5
    /\ Len(project.elements[1].keyframes) = 1
    /\ project.elements[1].keyframes[1].id = 4
    /\ project.elements[1].keyframes[1].time = currentTime

\* C13: the value addKeyframe stores for P is the keyframe-resolved value of
\* P at the current time, without the preset overlay, also when the element
\* has an active preset.
C13_RecordsKeyframeValue ==
    [][\A P \in RecordedProps : addKeyframe(selectedId, P) =>
          \A i \in selectedIndex :
              LET kfs == project'.elements[i].keyframes
              IN  kfs[Len(kfs)].props[P] =
                      Get(applyKeyframes(project.elements[i], currentTime), P)]_vars

(***************************************************************************)
(* Properties of the preview clock.                                        *)
(***************************************************************************)
\* the tick with this delay brings the time to or beyond project.duration
reachesEnd(deltaTime) ==
    DGeq(DAdd(currentTime, deltaTime), DOfSeconds(project.duration))

\* C14: while preview is playing, a tick that brings the time to or beyond
\* project.duration stops the clock and sets currentTime to 0; from then on,
\* until the user acts, the time stays 0 and the clock stays stopped.
C14_StopsAtEnd ==
    /\ [][\A deltaTime \in DeltaTimes :
             (isPlaying /\ reachesEnd(deltaTime) /\ animate(deltaTime)) =>
                 (~isPlaying' /\ currentTime' = DZero)]_vars
    /\ [](wrapped => (~isPlaying /\ currentTime = DZero))

exportEntered == ~isExporting /\ isExporting'

\* the first export step sets currentTime
firstExportStep == exportPc = "wait" /\ exportPc' = "loop"

\* C16: entering export clears the selection, and at the moment the first
\* export step sets currentTime the selection is still empty and preview is
\* stopped.
C16_SelectionCleared ==
    /\ [][exportEntered => selectedId' = NoId]_vars
    /\ [][firstExportStep => (selectedId' = NoId /\ ~isPlaying')]_vars

\* an operation that drives the clock: a preview tick, play/pause, a seek,
\* the export start, an export step or the export's completion
clockDriver ==
    \/ \E deltaTime \in DeltaTimes : animate(deltaTime)
    \/ onTogglePlay
    \/ \E x \in ScrubPixels : handleScrub(x)
    \/ skipBack
    \/ handleExport
    \/ \E canvas \in BOOLEAN : exportAfterWait(canvas)
    \/ recordLoopTimer
    \/ onstop

\* C19: no clock driver creates, changes or deletes an element or a keyframe:
\* every one of them leaves project.elements as it was.
C19_DriversKeepElements ==
    [][clockDriver => project'.elements = project.elements]_vars

\* an export runs its record loop over a project that holds an element,
\* with preview ticks in between
C19_Witness ==
    /\ Len(project.elements) = 1
    /\ exportPc = "loop"
    /\ steps >= 2
    /\ currentTime # DZero

(***************************************************************************)
(* Properties of the resolver's frame and of the presets.                  *)
(***************************************************************************)
\* C18: resolving an element changes nothing of it: base props, the keyframe
\* list (content and order) and every keyframe's props are after the call
\* what they were before, for every preset.
C18_ResolveKeepsElement ==
    [][resolve =>
          /\ element'.props = element.props
          /\ element'.keyframes = element.keyframes
          /\ element' = element]_vars

\* resolved: an element with a preset whose keyframes are stored out of time
\* order, and the result differs from the base props
C18_Witness ==
    /\ resolvePc = "done"
    /\ hasPreset(element)
    /\ keyframeCount = 2
    /\ RLess(element.keyframes[2].time, element.keyframes[1].time)
    /\ resolved # element.props

\* the element's animationDuration is a number D > 0
positiveDuration ==
    IsFinite(element.animationDuration)
        /\ RLess(RInt(0), element.animationDuration.num)

\* C20: with preset fadeIn and animation duration D the resolved opacity is 0
\* at relativeTime = 0, the keyframe-resolved opacity for relativeTime >= D,
\* and the keyframe-resolved opacity times relativeTime / D in between.
C20_FadeIn ==
    (resolvePc = "done" /\ element.animationPreset = "fadeIn"
        /\ positiveDuration) =>
        LET relativeTime == RSub(queryTime, element.startTime)
            D == element.animationDuration.num
            resolvedOpacity == Get(applyKeyframes(element, queryTime), "opacity")
        IN  /\ relativeTime = RInt(0) => resolved["opacity"] = NumI(0)
            /\ RLeq(D, relativeTime) => resolved["opacity"] = resolvedOpacity
            /\ (RLess(RInt(0), relativeTime) /\ RLess(relativeTime, D)) =>
                   resolved["opacity"] =
                       IF IsFinite(resolvedOpacity)
                       THEN Num(RMul(resolvedOpacity.num, RDiv(relativeTime, D)))
                       ELSE NaN

\* the multiple of a property value, NaN when it is not a finite number
scaled(v, r) == IF IsFinite(v) THEN Num(RMul(v.num, r)) ELSE NaN

\* C21: with preset pop, for 0 <= relativeTime < D/2 the scale is the
\* keyframe-resolved scale times eased = 1 + c3*(u-1)^3 + c1*(u-1)^2,
\* u = relativeTime / (D/2), with the overshoot (eased > 1) left in.
C21_PopOvershoot ==
    (resolvePc = "done" /\ element.animationPreset = "pop" /\ positiveDuration) =>
        LET relativeTime == RSub(queryTime, element.startTime)
            half == RMul(element.animationDuration.num, Rat(1, 2))
            eased == easeBackOut(RDiv(relativeTime, half))
            kf == applyKeyframes(element, queryTime)
        IN  (RLeq(RInt(0), relativeTime) /\ RLess(relativeTime, half)) =>
                /\ resolved["scaleX"] = scaled(Get(kf, "scaleX"), eased)
                /\ resolved["scaleY"] = scaled(Get(kf, "scaleY"), eased)

\* C22: an element whose animationDuration is unset, zero or negative resolves,
\* for every preset and every time, to the property set it would resolve to
\* with animationDuration = 1.0.
C22_DefaultDuration ==
    (resolvePc = "done" /\ ~positiveDuration) =>
        resolved = getInterpolatedProps(
                       [element EXCEPT !.animationDuration = NumI(1)], queryTime)

(***************************************************************************)
(* Properties of the canvas.                                               *)
(***************************************************************************)
elementIndexes == 1..Len(project.elements)

\* positions in canvasChildren at which the element with this id is drawn
drawnAt(id) == {j \in 1..Len(canvasChildren) : canvasChildren[j].id = id}

\* the position in project.elements of the element drawn at position j
sourceOf(j) == CHOOSE i \in elementIndexes : project.elements[i].id = canvasChildren[j].id

\* C23: an element is handed to the renderer at time t if and only if
\* startTime <= t <= startTime + duration, both ends included.
C23_VisibilityWindow ==
    \A i \in elementIndexes :
        LET el == project.elements[i]
        IN  (drawnAt(el.id) # {}) <=>
                (RLeq(el.startTime, currentTime)
                    /\ RLeq(currentTime, RAdd(el.startTime, el.duration)))

\* the element with startTime 2 and duration 3 is drawn at t = 5
C23_Witness ==
    /\ currentTime = RInt(5)
    /\ \E i \in elementIndexes :
           /\ project.elements[i].startTime = RInt(2)
           /\ project.elements[i].duration = RInt(3)
           /\ drawnAt(project.elements[i].id) # {}

baseZIndex(j) == project.elements[sourceOf(j)].props["zIndex"].num

\* C30: the elements drawn are exactly the visible ones, each once, in
\* ascending order of base zIndex (equal zIndex: in project order), whatever
\* the time, the keyframes and the presets.
C30_PaintOrder ==
    /\ \A i \in elementIndexes :
           Cardinality(drawnAt(project.elements[i].id)) =
               IF isVisible(project.elements[i], currentTime) THEN 1 ELSE 0
    /\ \A j \in 1..Len(canvasChildren) :
           \E i \in elementIndexes : project.elements[i].id = canvasChildren[j].id
    /\ \A j1, j2 \in 1..Len(canvasChildren) :
           j1 < j2 =>
               \/ RLess(baseZIndex(j1), baseZIndex(j2))
               \/ baseZIndex(j1) = baseZIndex(j2) /\ sourceOf(j1) < sourceOf(j2)

\* after a seek to 3 s the second element of the project is drawn below the
\* first, although its keyframe gives it a resolved zIndex above its base one
C30_Witness ==
    /\ currentTime = RInt(3)
    /\ Len(canvasChildren) = 2
    /\ sourceOf(1) = 2
    /\ sourceOf(2) = 1
    /\ project.elements[2].keyframes # << >>
    /\ canvasChildren[1].currentProps["zIndex"] # project.elements[2].props["zIndex"]

\* C24: with preset fadeOut the opacity is changed only when 0 < endDiff < D,
\* endDiff = (startTime + duration) - t, and is then the keyframe-resolved
\* opacity times endDiff / D; for endDiff >= D and for endDiff <= 0 (the end
\* of the clip included) it is the keyframe-resolved opacity.
C24_FadeOut ==
    (resolvePc = "done" /\ element.animationPreset = "fadeOut"
        /\ positiveDuration) =>
        LET D == element.animationDuration.num
            endDiff == RSub(RAdd(element.startTime, element.duration), queryTime)
            resolvedOpacity == Get(applyKeyframes(element, queryTime), "opacity")
        IN  resolved["opacity"] =
                IF RLess(RInt(0), endDiff) /\ RLess(endDiff, D)
                THEN scaled(resolvedOpacity, RDiv(endDiff, D))
                ELSE resolvedOpacity

\* the fade is half way: a keyframed opacity of 1/2 shown as 1/4
C24_Witness ==
    /\ resolvePc = "done"
    /\ element.animationPreset = "fadeOut"
    /\ element.animationDuration = NumI(1)
    /\ RSub(RAdd(element.startTime, element.duration), queryTime) = Rat(1, 2)
    /\ Get(applyKeyframes(element, queryTime), "opacity") = Num(Rat(1, 2))
    /\ resolved["opacity"] = Num(Rat(1, 4))

\* the off-canvas origin of a slide preset for the keyframe-resolved props kf
slideOrigin(preset, kf) ==
    IF preset = "slideInLeft"
    THEN scaled(plus(Get(kf, "width"), RInt(100)), RInt(0 - 1))
    ELSE NumI(CANVAS_WIDTH + 100)

\* b lies between a and c
between(a, b, c) ==
    \/ RLeq(a, b) /\ RLeq(b, c)
    \/ RLeq(c, b) /\ RLeq(b, a)

\* C25: with preset slideInLeft (slideInRight) x is the off-canvas origin
\* -(width + 100) (CANVAS_WIDTH + 100) at relativeTime = 0 and the
\* keyframe-resolved x for relativeTime >= D; for 0 <= relativeTime < D it
\* lies between the two and, the resolved x staying the same, is never
\* farther from it at a later time.
C25_SlideIn ==
    (resolvePc = "done"
        /\ element.animationPreset \in {"slideInLeft", "slideInRight"}
        /\ positiveDuration) =>
        LET D == element.animationDuration.num
            relativeTime == RSub(queryTime, element.startTime)
            kf == applyKeyframes(element, queryTime)
            origin == slideOrigin(element.animationPreset, kf)
            target == Get(kf, "x")
        IN  /\ relativeTime = RInt(0) => resolved["x"] = origin
            /\ RLeq(D, relativeTime) => resolved["x"] = target
            /\ (RLeq(RInt(0), relativeTime) /\ RLess(relativeTime, D)) =>
                   /\ IsFinite(resolved["x"])
                   /\ IsFinite(target)
                   /\ between(origin.num, resolved["x"].num, target.num)
                   /\ \A later \in QueryTimes :
                          (RLess(queryTime, later)
                              /\ applyKeyframes(element, later) = kf) =>
                              LET x2 == getInterpolatedProps(element, later)["x"]
                              IN  /\ IsFinite(x2)
                                  /\ between(resolved["x"].num, x2.num, target.num)

\* positions in element.keyframes (the insertion order) of the keyframes at or
\* before, and after, the query time
atOrBeforeQuery ==
    {i \in DOMAIN element.keyframes : RLeq(element.keyframes[i].time, queryTime)}

afterQuery ==
    {i \in DOMAIN element.keyframes : RLess(queryTime, element.keyframes[i].time)}

\* the last-inserted keyframe of the greatest time at or before the query time
lastInsertedBefore ==
    CHOOSE i \in atOrBeforeQuery : \A j \in atOrBeforeQuery :
        \/ RLess(element.keyframes[j].time, element.keyframes[i].time)
        \/ element.keyframes[j].time = element.keyframes[i].time /\ j <= i

\* the first-inserted keyframe of the least time after the query time
firstInsertedAfter ==
    CHOOSE i \in afterQuery : \A j \in afterQuery :
        \/ RLess(element.keyframes[i].time, element.keyframes[j].time)
        \/ element.keyframes[j].time = element.keyframes[i].time /\ i <= j

\* C27: keyframes are ordered ascending by time with ties kept in insertion
\* order: the previous keyframe is the last-inserted one of the greatest time
\* at or before t and the next keyframe is the first-inserted one of the least
\* time after t; where only one of the two exists the element resolves to
\* that keyframe's props over its base props.
C27_StableTies ==
    resolvePc = "done" =>
        LET sorted == sortedKeyframes(element)
        IN  /\ \A i, j \in DOMAIN sorted :
                   i < j => RLeq(sorted[i].time, sorted[j].time)
            /\ (atOrBeforeQuery = {}) = (prevAtQuery = 0)
            /\ (afterQuery = {}) = (nextAtQuery = 0)
            /\ atOrBeforeQuery # {} =>
                   sorted[prevAtQuery] = element.keyframes[lastInsertedBefore]
            /\ afterQuery # {} =>
                   sorted[nextAtQuery] = element.keyframes[firstInsertedAfter]
            /\ (~hasPreset(element) /\ atOrBeforeQuery # {} /\ afterQuery = {}) =>
                   resolved = Spread(element.props,
                                     element.keyframes[lastInsertedBefore].props)
            /\ (~hasPreset(element) /\ atOrBeforeQuery = {} /\ afterQuery # {}) =>
                   resolved = Spread(element.props,
                                     element.keyframes[firstInsertedAfter].props)

\* two keyframes of the same time 1 with different x: resolved at or after
\* that time the second one is used, resolved before it the first one
C27_Witness ==
    /\ resolvePc = "done"
    /\ ~hasPreset(element)
    /\ Len(element.keyframes) >= 2
    /\ element.keyframes[1].time = RInt(1)
    /\ element.keyframes[2].time = RInt(1)
    /\ Get(element.keyframes[1].props, "x") = NumI(0)
    /\ Get(element.keyframes[2].props, "x") = NumI(30)
    /\ queryTime = Rat(3, 2)
    /\ resolved["x"] = NumI(30)

(***************************************************************************)
(* Properties of the animation-frame subscription.                         *)
(***************************************************************************)
\* C28: at every instant at most one animation-frame callback is pending,
\* and it is the one whose handle animationFrameRef holds: a tick requests
\* its successor after it has run, and a change of isPlaying or of the
\* duration cancels the pending one before it requests another.
C28_OneFramePending ==
    /\ pendingFrames <= 1
    /\ pendingFrames = 1 => animationFrameRef = "pending"

\* preview plays and has ticked, after a duration change and a play toggle
C28_Witness ==
    /\ isPlaying
    /\ currentTime # DZero
    /\ project.duration # InitialDuration
    /\ pendingFrames = 1

(***************************************************************************)
(* Properties of the resets of the clock.                                  *)
(***************************************************************************)
\* C29: after the time was reset to 0 by the completion of an export or by
\* the preview tick that reached the end, the time stays 0 until the user
\* acts: no callback of a driver changes it.
C29_ResetHolds == (wrapped \/ exported) => currentTime = DZero

(***************************************************************************)
(* Properties of the timeline edits.                                       *)
(***************************************************************************)
\* C26: after any sequence of clip moves, edge resizes and duration edits
\* every element has startTime >= 0 and duration > 0, and project.duration > 0.
C26_DataInvariants ==
    /\ \A i \in 1..Len(project.elements) :
           /\ RLeq(RInt(0), project.elements[i].startTime)
           /\ RLess(RInt(0), project.elements[i].duration)
    /\ project.duration > 0

\* the left edge was dragged past the right one, which leaves the minimal
\* duration at the old end point, and the duration input was set below 1
C26_Witness ==
    /\ Len(project.elements) = 1
    /\ project.elements[1].startTime = Rat(49, 10)
    /\ project.elements[1].duration = MinClipDuration
    /\ project.duration = MinDuration

(***************************************************************************)
(* Properties of the divisors of the resolver.                             *)
(***************************************************************************)
\* C31: resolution never divides by zero: when a previous and a next
\* keyframe both exist the interval next.time - prev.time is strictly
\* positive, and the preset duration, the divisor of the presets, is not 0.
C31_NoZeroDivisor ==
    LET sorted == sortedKeyframes(element)
    IN  /\ (prevAtQuery # 0 /\ nextAtQuery # 0) =>
               RLess(RInt(0), RSub(sorted[nextAtQuery].time, sorted[prevAtQuery].time))
        /\ presetDuration(element).n # 0
        /\ presetDuration(element).d # 0

\* an element between two keyframes whose animationDuration is 0, resolved
\* under fadeIn to a number
C31_Witness ==
    /\ resolvePc = "done"
    /\ element.animationPreset = "fadeIn"
    /\ element.animationDuration = NumI(0)
    /\ prevAtQuery # 0
    /\ nextAtQuery # 0
    /\ IsFinite(resolved["opacity"])

(***************************************************************************)
(* Properties of the preset overlay as a whole.                            *)
(***************************************************************************)
\* the six presets the switch has a case for
knownPresets == ANIMATION_PRESETS \ {"none"}

\* C32: when the preset is unset, 'none', or a name that is not one of the
\* six known presets, getInterpolatedProps returns the keyframe-resolved
\* property set, with no overlay.
C32_NoOverlay ==
    (resolvePc = "done" /\ element.animationPreset \notin knownPresets) =>
        resolved = applyKeyframes(element, queryTime)

\* an element with an unknown preset name and a keyframe that has changed
\* its opacity, resolved inside the first second of its clip
C32_Witness ==
    /\ resolvePc = "done"
    /\ element.animationPreset = "spin"
    /\ element.startTime = RInt(0)
    /\ queryTime = Rat(1, 2)
    /\ resolved["opacity"] = Num(Rat(1, 2))

(***************************************************************************)
(* Properties of keyframe tracks.                                          *)
(***************************************************************************)
\* every keyframe of the element defines a single property
singlePropertyKeyframes(el) ==
    \A i \in 1..Len(el.keyframes) : Cardinality(DOMAIN el.keyframes[i].props) = 1

\* the element with the keyframes that define P only
trackOf(el, P) ==
    [el EXCEPT !.keyframes = SelectSeq(@, LAMBDA k : P \in DOMAIN k.props)]

\* C33: keyframe tracks of different properties are independent: when every
\* keyframe defines a single property, the resolved value of P is the one
\* the element resolves to with the keyframes that define P alone.
C33_TracksIndependent ==
    (resolvePc = "done" /\ singlePropertyKeyframes(element)) =>
        \A P \in {"x", "y"} :
            resolved[P] = getInterpolatedProps(trackOf(element, P), queryTime)[P]

(***************************************************************************)
(* Properties of the keyframe lists addKeyframe builds.                    *)
(***************************************************************************)
\* C34: starting from an element without keyframes, after any sequence of
\* addKeyframe every keyframe defines exactly one property, and two distinct
\* keyframes that define the same property are more than 0.05 s apart.
C34_KeyframeSpacing ==
    \A e \in 1..Len(project.elements) :
        LET kfs == project.elements[e].keyframes
        IN  /\ \A i \in 1..Len(kfs) : Cardinality(DOMAIN kfs[i].props) = 1
            /\ \A i, j \in 1..Len(kfs) :
                   (i # j /\ DOMAIN kfs[i].props = DOMAIN kfs[j].props) =>
                       RLess(KeyframeTolerance, RAbs(RSub(kfs[i].time, kfs[j].time)))

\* x was recorded at 0 and again at 4/64 s, outside the window of the first
\* keyframe, and a third keyframe was recorded as well
C34_Witness ==
    /\ Len(project.elements) = 1
    /\ Len(project.elements[1].keyframes) = 3
    /\ \E i, j \in 1..3 :
           /\ i # j
           /\ DOMAIN project.elements[1].keyframes[i].props = {"x"}
           /\ DOMAIN project.elements[1].keyframes[j].props = {"x"}
           /\ project.elements[1].keyframes[i].time = RInt(0)
           /\ project.elements[1].keyframes[j].time = Rat(4, 64)

\* what addKeyframe(id, P) may change and what it must keep: nothing but the
\* keyframes of element id, of which the keyframes that do not define P and
\* those farther than the tolerance from the current time are kept
keepsTheRest(id, P) ==
    /\ UNCHANGED << currentTime, isPlaying, selectedId, isExporting, stageRef >>
    /\ [project' EXCEPT !.elements = project.elements] = project
    /\ Len(project'.elements) = Len(project.elements)
    /\ \A i \in 1..Len(project.elements) :
           LET el == project.elements[i]
               after == project'.elements[i]
           IN  IF el.id # id THEN after = el
               ELSE /\ [after EXCEPT !.keyframes = el.keyframes] = el
                    /\ \A n \in 1..Len(el.keyframes) :
                           LET k == el.keyframes[n]
                           IN  (\/ P \notin DOMAIN k.props
                                \/ RLess(KeyframeTolerance,
                                         RAbs(RSub(k.time, currentTime)))) =>
                                   \E m \in 1..Len(after.keyframes) :
                                       after.keyframes[m] = k

\* C35: addKeyframe(id, P) changes nothing but the keyframe list of element
\* id, where it keeps every keyframe that does not define P and every
\* keyframe more than 0.05 s from the current time; for an id that matches
\* no element the project is unchanged.
C35_AddKeyframeFrame ==
    [][\A id \in AddKeyframeIds, P \in RecordedProps :
          addKeyframe(id, P) =>
              /\ keepsTheRest(id, P)
              /\ (~hasElement(id)) => project' = project]_vars

\* x was recorded on element 1 at time 0, where it already had an opacity
\* keyframe, which is kept; element 2 still has its one keyframe
C35_Witness ==
    /\ nextId > MaxKeyframes + 1
    /\ currentTime = RInt(0)
    /\ \E m, n \in 1..Len(project.elements[1].keyframes) :
           /\ project.elements[1].keyframes[m].id <= MaxKeyframes
           /\ project.elements[1].keyframes[m].time = RInt(0)
           /\ DOMAIN project.elements[1].keyframes[m].props = {"opacity"}
           /\ project.elements[1].keyframes[n].id > MaxKeyframes
           /\ DOMAIN project.elements[1].keyframes[n].props = {"x"}
    /\ Len(project.elements[2].keyframes) = 1

\* the keyframes without their ids
withoutIds(kfs) ==
    {[time |-> kfs[n].time, props |-> kfs[n].props] : n \in 1..Len(kfs)}

\* the keyframes of el after addKeyframe has recorded P on it
recordedOn(el, P) == Append(filteredKeyframes(el, P), newKeyframe(el, P, nextId))

\* C36: recording the current value is neutral at the recording time: the
\* resolved value of P at the current time is the same after addKeyframe
\* as before it, with or without a preset, and recording once more at the
\* same time leaves the same keyframes, up to their ids.
C36_RecordingNeutral ==
    [][\A P \in RecordedProps : addKeyframe(selectedId, P) =>
          \A i \in selectedIndex :
              /\ Get(getInterpolatedProps(project'.elements[i], currentTime), P) =
                     Get(getInterpolatedProps(project.elements[i], currentTime), P)
              /\ withoutIds(recordedOn(project'.elements[i], P)) =
                     withoutIds(project'.elements[i].keyframes)]_vars

(***************************************************************************)
(* Properties of the clock as a whole.                                     *)
(***************************************************************************)
\* C37: in every reachable state 0 <= currentTime <= project.duration.
C37_TimeInRange ==
    /\ DGeq(currentTime, DZero)
    /\ DGeq(DOfSeconds(project.duration), currentTime)

(***************************************************************************)
(* Properties of the export guard.                                         *)
(***************************************************************************)
\* C38: requesting an export while one is running is a no-op: the running
\* wait, record loop and recorder are not restarted and no state changes;
\* and since an export in flight always has isExporting set, at most one
\* record loop is ever scheduled and writing currentTime.
C38_ExportNotReentrant ==
    /\ [](exportPc # "idle" => isExporting)
    /\ [][(isExporting /\ handleExport) =>
              /\ UNCHANGED exportVars
              /\ Observable' = Observable
              /\ UNCHANGED << stageRef, nextId >>]_vars

\* an export is in its record loop, past its second step, while the stage is
\* mounted and a preview wrap has been seen: a request made now passes
\* through handleExport's guard
C38_Witness ==
    /\ isExporting
    /\ stageRef # Null
    /\ exportPc = "loop"
    /\ steps >= 2
    /\ wrapped

(***************************************************************************)
(* The frame of the presets.                                               *)
(***************************************************************************)
\* the properties a preset may change
ownProperties(preset) ==
    IF preset \in {"fadeIn", "fadeOut"} THEN {"opacity"}
    ELSE IF preset \in {"slideInLeft", "slideInRight"} THEN {"x"}
    ELSE IF preset \in {"pop", "pulse"} THEN {"scaleX", "scaleY"}
    ELSE {}

\* a / a0 = b / b0
sameFactor(a, b, a0, b0) ==
    IF IsFinite(a) /\ IsFinite(b) /\ IsFinite(a0) /\ IsFinite(b0)
    THEN RMul(a.num, b0.num) = RMul(b.num, a0.num)
    ELSE a = b

\* a - a0 = b - b0
sameOffset(a, b, a0, b0) ==
    IF IsFinite(a) /\ IsFinite(b) /\ IsFinite(a0) /\ IsFinite(b0)
    THEN RSub(a.num, a0.num) = RSub(b.num, b0.num)
    ELSE a = b

\* C39: each preset changes only its own properties of the keyframe-resolved
\* set: fadeIn and fadeOut at most opacity, slideInLeft and slideInRight at
\* most x, pop and pulse at most scaleX and scaleY, pop both by the same
\* factor and pulse both by the same offset; every other property of the
\* result is the keyframe-resolved value, at every time.
C39_PresetOwnProperties ==
    resolvePc = "done" =>
        LET kf == applyKeyframes(element, queryTime)
            preset == element.animationPreset
        IN  /\ DOMAIN resolved = DOMAIN kf
            /\ \A k \in DOMAIN resolved \ ownProperties(preset) :
                   resolved[k] = kf[k]
            /\ preset = "pop" =>
                   sameFactor(resolved["scaleX"], resolved["scaleY"],
                              kf["scaleX"], kf["scaleY"])
            /\ preset = "pulse" =>
                   sameOffset(resolved["scaleX"], resolved["scaleY"],
                              kf["scaleX"], kf["scaleY"])

\* a pop in its first half over keyframes that moved x off its base value:
\* both scales are changed alike and x is the keyframed value
C39_Witness ==
    /\ resolvePc = "done"
    /\ element.animationPreset = "pop"
    /\ resolved["scaleX"] # applyKeyframes(element, queryTime)["scaleX"]
    /\ resolved["scaleX"] = resolved["scaleY"]
    /\ resolved["x"] # element.props["x"]
    /\ resolved["x"] = applyKeyframes(element, queryTime)["x"]

====
